---- MODULE Spec2Model ----
(***************************************************************************)
(* Ledger core of the inventory management system: the request handler of  *)
(* src/api/server.js running against the tables of                         *)
(* src/database/schema.sql.                                                *)
(*                                                                         *)
(* Amounts (NUMERIC(10,2)) are integers counted in the smallest unit.      *)
(* Dates are day numbers.  Row ids come from SERIAL sequences; a row of    *)
(* products, expired_stock, borrowers and borrower_payments has as id its  *)
(* position in the table, stock and sales rows carry their id.  sale_items *)
(* rows are only ever addressed by sale_id and are kept in insertion       *)
(* order.  The handlers of server.js insert sale_items without the         *)
(* expiry_date column of schema.sql, the model follows their column list.  *)
(*                                                                         *)
(* A request is one step, the handler's call of moveExpiredStock and its   *)
(* route, in the scenarios that serve one request at a time.  The counter  *)
(* scenario runs route sales POST one statement at a time on two clients   *)
(* of the pool, whose transactions run at the READ COMMITTED level pg      *)
(* starts them at: a statement sees the rows committed before it started,  *)
(* an UPDATE waits for the lock of a row another open transaction has      *)
(* written and then works on the latest version of the row.                *)
(***************************************************************************)
EXTENDS Integers, Sequences, FiniteSets, TLC

\* ---------------------------------------------------------------- bounds
MaxDay == 2
MaxProducts == 2
MaxQty == 1
MaxSales == 1
MaxCreditSales == 2
MaxPayments == 1
MaxStockRows == 2
MaxAmount == 2
MaxItems == 1
MaxShelf == 2

\* ------------------------------------------------------ request domains
NULL == "NULL"
NoDate == 0
Days == 1..MaxDay
Amounts == 0..MaxAmount

Seqs(S, n) == UNION {[1..k -> S] : k \in 0..n}

\* requests of the shelf scenario: batches of one article with any expiry
\* date, with a quantity that is negative, missing or one piece
StockReqs == [name : {"Widget"}, price : {2}, expiry_date : Days,
              quantity : {-1, 0, 1}]

\* requests of the inventory scenario: one article that expires during the
\* run, cash sales of one or two pieces of it
ShopStockReqs == [name : {"Widget"}, price : {2}, expiry_date : {1},
                  quantity : {-1, 1}]
Items == [product_id : {1}, price : {2}, quantity : {1, 2}]
SaleReqs == [customer_name : {NULL}, payment_type : {"CASH"},
             items : Seqs(Items, MaxItems), total_amount : {2},
             discount_amount : {0}, paid_amount : {2}]
EditItems == [product_id : {1}, quantity : {1, 2}]
EditReqs == [sale_id : 1..MaxSales, customer_name : {NULL},
             payment_type : {"CASH"}, discount_amount : {0},
             paid_amount : {2}, items : Seqs(EditItems, MaxItems)]
DeleteReqs(n) == [sale_id : 1..n]

\* requests of the credit scenario: one article that does not expire, sales
\* of one piece or of more than the shelf holds, for cash to an anonymous
\* customer or on credit to a named one, edits that put the bill on the
\* named customer's account with a known or an unknown article
LedgerStockReqs == [name : {"Widget"}, price : {2}, expiry_date : {MaxDay},
                    quantity : {MaxQty}]
LedgerItems == [product_id : {1}, price : {2}, quantity : {1, MaxQty + 1}]
LedgerSaleReqs ==
  [customer_name : {NULL}, payment_type : {"CASH"},
   items : Seqs(LedgerItems, MaxItems), total_amount : {2},
   discount_amount : {0}, paid_amount : {2}]
  \cup [customer_name : {"Amit"}, payment_type : {"BORROW"},
        items : Seqs(LedgerItems, MaxItems), total_amount : {2},
        discount_amount : {0}, paid_amount : {0}]
LedgerEditItems == {[product_id |-> 1, quantity |-> 1],
                    [product_id |-> 1, quantity |-> MaxQty + 1],
                    [product_id |-> 2, quantity |-> 1]}
LedgerEditReqs == [sale_id : 1..MaxSales, customer_name : {"Amit"},
                   payment_type : {"BORROW"}, discount_amount : {0},
                   paid_amount : {0}, items : Seqs(LedgerEditItems, MaxItems)]
PaymentReqs == [borrower_id : 1..2, amount : {-1, 1, 2}]

\* requests of the archive scenario: one article that expires during the
\* run, one sale of a piece on credit, its edits and delete, one payment
ArchiveStockReqs == [name : {"Widget"}, price : {2}, expiry_date : {1},
                     quantity : {1}]
ArchiveSaleReqs ==
  [customer_name : {"Amit"}, payment_type : {"BORROW"}, total_amount : {2},
   discount_amount : {0}, paid_amount : {0},
   items : {<<[product_id |-> 1, price |-> 2, quantity |-> 1]>>}]
ArchiveEditReqs ==
  [sale_id : 1..MaxSales, customer_name : {NULL, "Amit"},
   payment_type : {"BORROW"}, discount_amount : {0}, paid_amount : {0},
   items : {<<[product_id |-> 1, quantity |-> 1]>>}]
ArchivePaymentReqs == [borrower_id : {1}, amount : {1}]

\* requests of the price scenario: sales of one piece at the shelf price or
\* at a price of the caller's, for cash or on credit, and edits that repeat
\* or change the bill's header
PriceSaleReqs ==
  {[customer_name |-> c.name, payment_type |-> c.type,
    items |-> <<[product_id |-> 1, price |-> p, quantity |-> 1]>>,
    total_amount |-> p, discount_amount |-> 0,
    paid_amount |-> IF c.type = "CASH" THEN p ELSE 0]
   : p \in {1, 2},
     c \in {[name |-> NULL, type |-> "CASH"],
            [name |-> "Amit", type |-> "BORROW"]}}
PriceEditReqs ==
  [sale_id : 1..MaxSales, customer_name : {NULL, "Amit"},
   payment_type : {"CASH", "BORROW"}, discount_amount : {0},
   paid_amount : {0, 1, 2},
   items : {<<[product_id |-> 1, quantity |-> 1]>>}]

\* requests of the till scenario: sales of one article whose item lists may
\* be empty or hold quantities that are zero or negative
TillItems == [product_id : {1}, price : {2}, quantity : {-1, 0, 1}]
TillSaleReqs ==
  [customer_name : {NULL}, payment_type : {"CASH"}, total_amount : {2},
   discount_amount : {0}, paid_amount : {2},
   items : Seqs(TillItems, MaxItems + 1)]

\* requests of the tab scenario: sales of one piece to two customers or to
\* nobody, for cash or on credit, paid in full or not at all
TabSaleReqs ==
  [customer_name : {NULL, "Amit", "Bina"}, payment_type : {"CASH", "BORROW"},
   total_amount : {2}, discount_amount : {0}, paid_amount : {0, 2},
   items : {<<[product_id |-> 1, price |-> 2, quantity |-> 1]>>}]

\* requests of the payment scenario: sales of one piece on credit to two
\* customers, unpaid or paid beyond the total, and payments of amounts around
\* zero and around the outstanding amount, for borrowers that exist or not
PaySaleReqs ==
  [customer_name : {"Amit", "Bina"}, payment_type : {"BORROW"},
   total_amount : {2}, discount_amount : {0}, paid_amount : {0, 3},
   items : {<<[product_id |-> 1, price |-> 2, quantity |-> 1]>>}]
PayReqs == [borrower_id : 0..3, amount : {-1, 0, 1, 2, 3}]

\* requests of the credit scenario with several bills: credit sales of one
\* piece to one customer, paid in part, in full or not at all
CreditStockReqs == [name : {"Widget"}, price : {2}, expiry_date : {MaxDay},
                    quantity : {1}]
CreditItems == [product_id : {1}, price : {2}, quantity : {1}]
CreditSaleReqs == [customer_name : {"Amit"}, payment_type : {"BORROW"},
                   items : Seqs(CreditItems, MaxItems), total_amount : Amounts,
                   discount_amount : {0}, paid_amount : Amounts]
CreditEditItems == [product_id : {1}, quantity : {1}]
CreditEditReqs == [sale_id : 1..MaxCreditSales, customer_name : {NULL, "Amit"},
                   payment_type : {"BORROW"}, discount_amount : {0},
                   paid_amount : {0, MaxAmount},
                   items : Seqs(CreditEditItems, MaxItems)]
CreditPaymentReqs == [borrower_id : {1}, amount : {1}]

VARIABLES products, stock, stockSeq, expired_stock, sales, saleSeq,
          sale_items, borrowers, borrower_payments,
          today, lastExpiredCheck, last, txn, shelf

vars == <<products, stock, stockSeq, expired_stock, sales, saleSeq,
          sale_items, borrowers, borrower_payments,
          today, lastExpiredCheck, last, txn, shelf>>

\* the committed contents of the database
DB == [products |-> products, stock |-> stock, stockSeq |-> stockSeq,
       expired_stock |-> expired_stock, sales |-> sales, saleSeq |-> saleSeq,
       sale_items |-> sale_items, borrowers |-> borrowers,
       borrower_payments |-> borrower_payments]

\* ------------------------------------------------------------- helpers
RECURSIVE SumSeq(_)
SumSeq(s) == IF s = <<>> THEN 0 ELSE Head(s) + SumSeq(Tail(s))

\* rows of a table with ids, in id order
RECURSIVE ById(_)
ById(S) ==
  IF S = {} THEN <<>>
  ELSE LET r == CHOOSE x \in S : \A y \in S : x.id <= y.id
       IN <<r>> \o ById(S \ {r})

Min(a, b) == IF a < b THEN a ELSE b
Max(a, b) == IF a > b THEN a ELSE b

\* ------------------------------------------- storage layer (schema.sql)
\* a transaction in progress: the database as the transaction sees it and
\* the error that aborted it ("" while none)
BEGIN(d) == [db |-> d, err |-> ""]

\* a stock table without its quantity check
StockQuantityCheck_Off(q) == TRUE

StockQuantityCheck(q) == q >= 0

SaleRowCheck(row) ==
  /\ row.payment_type \in {"CASH", "ONLINE", "BORROW"}
  /\ row.total_amount >= 0
  /\ row.paid_amount >= 0

\* a sale_items table without its checks
SaleItemRowCheck_Off(row) == TRUE

SaleItemRowCheck(row) == row.quantity > 0 /\ row.line_total >= 0

\* a borrowers table without its check
BorrowerRowCheck_Off(row) == TRUE

BorrowerRowCheck(row) == row.outstanding_amount >= 0

\* a borrower_payments table without its check
BorrowerPaymentRowCheck_Off(row) == TRUE

BorrowerPaymentRowCheck(row) == row.amount_paid >= 0

\* UPDATE stock SET quantity = quantity + delta WHERE product_id = pid
UpdateStock(t, pid, delta) ==
  IF t.err # "" THEN t
  ELSE LET new == {[r EXCEPT !.quantity =
                       IF r.product_id = pid THEN @ + delta ELSE @]
                   : r \in t.db.stock}
       IN IF \A r \in new : StockQuantityCheck(r.quantity)
          THEN [t EXCEPT !.db.stock = new]
          ELSE [t EXCEPT !.err = "stock_quantity_check"]

\* INSERT INTO stock (product_id, quantity)
InsertStock(t, pid, quantity) ==
  IF t.err # "" THEN t
  ELSE IF ~StockQuantityCheck(quantity)
       THEN [t EXCEPT !.err = "stock_quantity_check"]
       ELSE [t EXCEPT !.db.stockSeq = @ + 1,
                      !.db.stock = @ \cup {[id |-> t.db.stockSeq + 1,
                                            product_id |-> pid,
                                            quantity |-> quantity]}]

\* INSERT INTO sale_items (sale_id, product_id, price, quantity, line_total)
InsertSaleItem(t, row) ==
  IF t.err # "" THEN t
  ELSE IF ~(\E s \in t.db.sales : s.id = row.sale_id)
       THEN [t EXCEPT !.err = "sale_items_sale_id_fkey"]
  ELSE IF row.product_id \notin 1..Len(t.db.products)
       THEN [t EXCEPT !.err = "sale_items_product_id_fkey"]
  ELSE IF ~SaleItemRowCheck(row)
       THEN [t EXCEPT !.err = "sale_items_check"]
  ELSE [t EXCEPT !.db.sale_items = Append(@, row)]

\* no column
NoCols == [c \in {} |-> 0]

\* UPDATE sales SET c = set[c], ..., c = c + add[c], ... WHERE id = saleId
UpdateSale(t, saleId, set, add) ==
  IF t.err # "" THEN t
  ELSE LET new == {IF s.id = saleId
                   THEN [c \in DOMAIN s |->
                           IF c \in DOMAIN set THEN set[c]
                           ELSE IF c \in DOMAIN add THEN s[c] + add[c]
                           ELSE s[c]]
                   ELSE s : s \in t.db.sales}
       IN IF \A s \in new : SaleRowCheck(s)
          THEN [t EXCEPT !.db.sales = new]
          ELSE [t EXCEPT !.err = "sales_check"]

\* UPDATE borrowers SET outstanding_amount = amount WHERE id = bid
SetOutstanding(t, bid, amount) ==
  IF t.err # "" THEN t
  ELSE IF ~BorrowerRowCheck([outstanding_amount |-> amount])
       THEN [t EXCEPT !.err = "borrowers_outstanding_amount_check"]
  ELSE [t EXCEPT !.db.borrowers[bid].outstanding_amount = amount]

\* UPDATE borrowers SET outstanding_amount = outstanding_amount + delta
\* WHERE id = bid
AddOutstanding(t, bid, delta) ==
  IF t.err # "" THEN t
  ELSE SetOutstanding(t, bid, t.db.borrowers[bid].outstanding_amount + delta)

\* SELECT id FROM borrowers WHERE name = name; 0 when there is none
BorrowerId(d, name) ==
  IF \E i \in 1..Len(d.borrowers) : d.borrowers[i].name = name
  THEN CHOOSE i \in 1..Len(d.borrowers) : d.borrowers[i].name = name
  ELSE 0

\* rows of sale_items with the given sale_id
ItemsOf(d, saleId) == SelectSeq(d.sale_items, LAMBDA it : it.sale_id = saleId)

\* sales of one customer
SalesOf(d, name) == {s \in d.sales : s.customer_name = name}

RECURSIVE SumBorrow(_)
SumBorrow(S) ==
  IF S = {} THEN 0
  ELSE LET s == CHOOSE x \in S : TRUE
       IN s.borrow_amount + SumBorrow(S \ {s})

RECURSIVE SumLineTotal(_)
SumLineTotal(items) ==
  IF items = <<>> THEN 0
  ELSE Head(items).line_total + SumLineTotal(Tail(items))

\* ------------------------------------------------------- expiry sweeper
\* a sweep that records the expired quantity and leaves the stock row
RECURSIVE sweepRows_NoDelete(_, _, _)
sweepRows_NoDelete(d, rows, day) ==
  IF rows = <<>> THEN d
  ELSE LET row == Head(rows)
           d1 == IF row.quantity > 0
                 THEN [d EXCEPT !.expired_stock =
                         Append(@, [product_id |-> row.product_id,
                                    quantity |-> row.quantity,
                                    expired_date |-> day])]
                 ELSE d
       IN sweepRows_NoDelete(d1, Tail(rows), day)

\* a sweep that adds the expired quantity to the row the product already has
\* for the day (INSERT ... ON CONFLICT (product_id, expired_date) DO UPDATE)
RECURSIVE sweepRows_Merge(_, _, _)
sweepRows_Merge(d, rows, day) ==
  IF rows = <<>> THEN d
  ELSE LET row == Head(rows)
           same == {i \in 1..Len(d.expired_stock) :
                      /\ d.expired_stock[i].product_id = row.product_id
                      /\ d.expired_stock[i].expired_date = day}
           d1 == IF row.quantity <= 0 THEN d
                 ELSE IF same = {}
                 THEN [d EXCEPT !.expired_stock =
                         Append(@, [product_id |-> row.product_id,
                                    quantity |-> row.quantity,
                                    expired_date |-> day])]
                 ELSE [d EXCEPT !.expired_stock =
                         [i \in 1..Len(@) |->
                            IF i \in same
                            THEN [@[i] EXCEPT !.quantity = @ + row.quantity]
                            ELSE @[i]]]
           d2 == [d1 EXCEPT !.stock = {r \in @ : r.id # row.id}]
       IN sweepRows_Merge(d2, Tail(rows), day)

RECURSIVE sweepRows(_, _, _)
sweepRows(d, rows, day) ==
  IF rows = <<>> THEN d
  ELSE LET row == Head(rows)
           d1 == IF row.quantity > 0
                 THEN [d EXCEPT !.expired_stock =
                         Append(@, [product_id |-> row.product_id,
                                    quantity |-> row.quantity,
                                    expired_date |-> day])]
                 ELSE d
           d2 == [d1 EXCEPT !.stock = {r \in @ : r.id # row.id}]
       IN sweepRows(d2, Tail(rows), day)

\* a sweep that also takes the products expiring on the day itself
expiredRows_Inclusive(d, day) ==
  ById({r \in d.stock : d.products[r.product_id].expiry_date <= day})

\* the stock rows whose product has expiry_date < day
expiredRows(d, day) ==
  ById({r \in d.stock : d.products[r.product_id].expiry_date < day})

\* moveExpiredStock: [db, lastExpiredCheck] after the call
moveExpiredStock(d, lec, day) ==
  IF lec = day THEN [db |-> d, lastExpiredCheck |-> lec]
  ELSE [db |-> sweepRows(d, expiredRows(d, day), day),
        lastExpiredCheck |-> day]

\* ------------------------------------------------------------- helpers
recomputeSaleTotals(t, saleId) ==
  IF t.err # "" THEN t
  ELSE LET total == SumSeq([i \in 1..Len(ItemsOf(t.db, saleId)) |->
                             ItemsOf(t.db, saleId)[i].price
                               * ItemsOf(t.db, saleId)[i].quantity])
           sale == CHOOSE s \in t.db.sales : s.id = saleId
           paid == sale.paid_amount
           borrow_amount == IF sale.payment_type = "BORROW"
                            THEN (IF total - paid < 0 THEN 0 ELSE total - paid)
                            ELSE 0
       IN UpdateSale(t, saleId,
                     [total_amount |-> total, borrow_amount |-> borrow_amount],
                     NoCols)

syncBorrowerOutstanding(t, borrowerName) ==
  IF t.err # "" THEN t
  ELSE LET borrowerId == BorrowerId(t.db, borrowerName)
           totalBorrow == SumBorrow(SalesOf(t.db, borrowerName))
       IN IF borrowerId = 0 THEN t
          ELSE IF totalBorrow <= 0
               THEN SetOutstanding(t, borrowerId, 0)
               ELSE SetOutstanding(t, borrowerId, totalBorrow)

\* the outcome of a request: the committed database and the response
Response(d, ok, err) == [db |-> d, ok |-> ok, err |-> err]

\* COMMIT when the transaction ran through, ROLLBACK when a step threw
Finish(d, t) ==
  IF t.err = "" THEN Response(t.db, TRUE, "") ELSE Response(d, FALSE, t.err)

\* ------------------------------------------------- route stock POST
\* INSERT INTO products ... ON CONFLICT (name, price, expiry_date)
\* DO UPDATE ... RETURNING id
ProductId(d, name, price, expiry_date) ==
  LET hit == {i \in 1..Len(d.products) :
                /\ d.products[i].name = name
                /\ d.products[i].price = price
                /\ d.products[i].expiry_date = expiry_date}
  IN IF hit = {} THEN Len(d.products) + 1 ELSE CHOOSE i \in hit : TRUE

UpsertProduct(t, name, price, expiry_date) ==
  IF ProductId(t.db, name, price, expiry_date) <= Len(t.db.products) THEN t
  ELSE [t EXCEPT !.db.products =
          Append(@, [name |-> name, price |-> price,
                     expiry_date |-> expiry_date])]

\* a stock POST whose UPDATE sets the quantity instead of adding to it
stockPOSTTxn_Overwrite(d, req) ==
  LET t0 == BEGIN(d)
      pid == ProductId(d, req.name, req.price, req.expiry_date)
      t1 == UpsertProduct(t0, req.name, req.price, req.expiry_date)
      rows == {r \in t1.db.stock : r.product_id = pid}
  IN IF rows = {}
     THEN InsertStock(t1, pid, req.quantity)
     ELSE UpdateStock(t1, pid,
                      req.quantity - (CHOOSE r \in rows : TRUE).quantity)

stockPOSTTxn(d, req) ==
  LET t0 == BEGIN(d)
      pid == ProductId(d, req.name, req.price, req.expiry_date)
      t1 == UpsertProduct(t0, req.name, req.price, req.expiry_date)
  IN IF {r \in t1.db.stock : r.product_id = pid} = {}
     THEN InsertStock(t1, pid, req.quantity)
     ELSE UpdateStock(t1, pid, req.quantity)

stockPOST(d, req) ==
  IF req.price = 0 \/ req.quantity = 0
  THEN Response(d, FALSE, "Missing fields")
  ELSE Finish(d, stockPOSTTxn(d, req))

\* ------------------------------------------------- route sales POST
\* INSERT INTO sales (...) RETURNING id
InsertSale(t, row) ==
  IF t.err # "" THEN t
  ELSE IF ~SaleRowCheck(row) THEN [t EXCEPT !.err = "sales_check"]
  ELSE [t EXCEPT !.db.saleSeq = @ + 1,
                 !.db.sales = @ \cup {[row EXCEPT !.id = t.db.saleSeq + 1,
                                                   !.sale_date = t.db.saleSeq + 1]}]

RECURSIVE saleItemsLoop(_, _, _)
saleItemsLoop(t, saleId, items) ==
  IF items = <<>> \/ t.err # "" THEN t
  ELSE LET it == Head(items)
           t1 == UpdateStock(t, it.product_id, 0 - it.quantity)
           t2 == InsertSaleItem(t1, [sale_id |-> saleId,
                                     product_id |-> it.product_id,
                                     price |-> it.price,
                                     quantity |-> it.quantity,
                                     line_total |-> it.price * it.quantity])
       IN saleItemsLoop(t2, saleId, Tail(items))

\* INSERT INTO borrowers (name, outstanding_amount)
InsertBorrower(t, name, amount) ==
  IF t.err # "" THEN t
  ELSE IF BorrowerId(t.db, name) # 0
       THEN [t EXCEPT !.err = "borrowers_name_key"]
  ELSE IF ~BorrowerRowCheck([outstanding_amount |-> amount])
       THEN [t EXCEPT !.err = "borrowers_outstanding_amount_check"]
  ELSE [t EXCEPT !.db.borrowers =
          Append(@, [name |-> name, outstanding_amount |-> amount])]

\* a borrower upsert whose UPDATE sets the outstanding amount to the new
\* sale's borrow_amount
borrowerUpsert_Set(t, customer_name, borrow_amount) ==
  IF t.err # "" THEN t
  ELSE IF borrow_amount > 0 /\ customer_name # NULL
       THEN IF BorrowerId(t.db, customer_name) = 0
            THEN InsertBorrower(t, customer_name, borrow_amount)
            ELSE SetOutstanding(t, BorrowerId(t.db, customer_name),
                                borrow_amount)
       ELSE t

borrowerUpsert(t, customer_name, borrow_amount) ==
  IF t.err # "" THEN t
  ELSE IF borrow_amount > 0 /\ customer_name # NULL
       THEN IF BorrowerId(t.db, customer_name) = 0
            THEN InsertBorrower(t, customer_name, borrow_amount)
            ELSE AddOutstanding(t, BorrowerId(t.db, customer_name),
                                borrow_amount)
       ELSE t

salesPOSTTxn(d, req) ==
  LET borrow_amount == IF req.payment_type = "BORROW"
                       THEN req.total_amount - req.paid_amount
                       ELSE 0
      t0 == BEGIN(d)
      t1 == InsertSale(t0, [id |-> 0, sale_date |-> 0,
                            customer_name |-> req.customer_name,
                            payment_type |-> req.payment_type,
                            total_amount |-> req.total_amount,
                            discount_amount |-> req.discount_amount,
                            paid_amount |-> req.paid_amount,
                            borrow_amount |-> borrow_amount])
      t2 == saleItemsLoop(t1, t1.db.saleSeq, req.items)
  IN borrowerUpsert(t2, req.customer_name, borrow_amount)

\* a createSale whose catch block commits what was done so far
salesPOST_NoRollback(d, req) ==
  IF req.items = <<>>
  THEN Response(d, FALSE, "No sale items")
  ELSE LET t == salesPOSTTxn(d, req) IN Response(t.db, t.err = "", t.err)

salesPOST(d, req) ==
  IF req.items = <<>>
  THEN Response(d, FALSE, "No sale items")
  ELSE Finish(d, salesPOSTTxn(d, req))

\* ------------------------------------------------- route edit-bill POST
RECURSIVE restoreStock(_, _)
restoreStock(t, items) ==
  IF items = <<>> \/ t.err # "" THEN t
  ELSE restoreStock(UpdateStock(t, Head(items).product_id, Head(items).quantity),
                    Tail(items))

\* DELETE FROM sale_items WHERE sale_id = saleId
DeleteSaleItems(t, saleId) ==
  IF t.err # "" THEN t
  ELSE [t EXCEPT !.db.sale_items = SelectSeq(@, LAMBDA it : it.sale_id # saleId)]

RECURSIVE editItemsLoop(_, _, _)
editItemsLoop(t, saleId, items) ==
  IF items = <<>> \/ t.err # "" THEN t
  ELSE LET it == Head(items)
           qty == it.quantity
           productId == it.product_id
       IN IF qty <= 0 THEN editItemsLoop(t, saleId, Tail(items))
          ELSE IF productId \notin 1..Len(t.db.products)
               THEN [t EXCEPT !.err = "Invalid product in edit"]
          ELSE LET price == t.db.products[productId].price
                   t1 == UpdateStock(t, productId, 0 - qty)
                   t2 == InsertSaleItem(t1, [sale_id |-> saleId,
                                             product_id |-> productId,
                                             price |-> price,
                                             quantity |-> qty,
                                             line_total |-> price * qty])
               IN editItemsLoop(t2, saleId, Tail(items))

editBillTxn(d, req) ==
  LET t0 == BEGIN(d)
  IN IF ~(\E s \in d.sales : s.id = req.sale_id)
     THEN [t0 EXCEPT !.err = "Sale not found"]
     ELSE LET oldSale == CHOOSE s \in d.sales : s.id = req.sale_id
              oldCustomer == oldSale.customer_name
              t1 == restoreStock(t0, ItemsOf(d, req.sale_id))
              t2 == DeleteSaleItems(t1, req.sale_id)
              t3 == editItemsLoop(t2, req.sale_id, req.items)
              t4 == UpdateSale(t3, req.sale_id,
                               [customer_name |-> req.customer_name,
                                payment_type |-> req.payment_type,
                                discount_amount |-> req.discount_amount,
                                paid_amount |-> req.paid_amount],
                               NoCols)
              t5 == recomputeSaleTotals(t4, req.sale_id)
              t6 == IF oldCustomer # NULL /\ oldCustomer # req.customer_name
                    THEN syncBorrowerOutstanding(t5, oldCustomer)
                    ELSE t5
          IN IF req.customer_name # NULL
             THEN syncBorrowerOutstanding(t6, req.customer_name)
             ELSE t6

\* an editSale whose catch block commits what was done so far
editBillPOST_NoRollback(d, req) ==
  IF req.sale_id = 0
  THEN Response(d, FALSE, "Missing sale_id or items")
  ELSE LET t == editBillTxn(d, req) IN Response(t.db, t.err = "", t.err)

editBillPOST(d, req) ==
  IF req.sale_id = 0
  THEN Response(d, FALSE, "Missing sale_id or items")
  ELSE Finish(d, editBillTxn(d, req))

\* ------------------------------------------------- route delete-bill POST
\* DELETE FROM sales WHERE id = saleId
DeleteSaleRow(t, saleId) ==
  IF t.err # "" THEN t
  ELSE [t EXCEPT !.db.sales = {s \in @ : s.id # saleId},
                 !.db.sale_items = SelectSeq(@, LAMBDA it : it.sale_id # saleId)]

\* a delete-bill route that does not check that its SELECT found the sale
deleteBillTxn_NoLookup(d, req) ==
  LET t0 == BEGIN(d)
  IN IF ~(\E s \in d.sales : s.id = req.sale_id)
     THEN DeleteSaleRow(DeleteSaleItems(t0, req.sale_id), req.sale_id)
     ELSE LET sale == CHOOSE s \in d.sales : s.id = req.sale_id
              custName == sale.customer_name
              t1 == restoreStock(t0, ItemsOf(d, req.sale_id))
              t2 == DeleteSaleItems(t1, req.sale_id)
              t3 == DeleteSaleRow(t2, req.sale_id)
          IN IF custName # NULL
             THEN syncBorrowerOutstanding(t3, custName)
             ELSE t3

deleteBillTxn(d, req) ==
  LET t0 == BEGIN(d)
  IN IF ~(\E s \in d.sales : s.id = req.sale_id)
     THEN [t0 EXCEPT !.err = "Sale not found"]
     ELSE LET sale == CHOOSE s \in d.sales : s.id = req.sale_id
              custName == sale.customer_name
              t1 == restoreStock(t0, ItemsOf(d, req.sale_id))
              t2 == DeleteSaleItems(t1, req.sale_id)
              t3 == DeleteSaleRow(t2, req.sale_id)
          IN IF custName # NULL
             THEN syncBorrowerOutstanding(t3, custName)
             ELSE t3

deleteBillPOST(d, req) ==
  IF req.sale_id = 0
  THEN Response(d, FALSE, "sale_id required")
  ELSE Finish(d, deleteBillTxn(d, req))

\* ------------------------------------------- route borrower-payments POST
\* INSERT INTO borrower_payments (borrower_id, amount_paid)
InsertBorrowerPayment(t, row) ==
  IF t.err # "" THEN t
  ELSE IF row.borrower_id \notin 1..Len(t.db.borrowers)
       THEN [t EXCEPT !.err = "borrower_payments_borrower_id_fkey"]
  ELSE IF ~BorrowerPaymentRowCheck(row)
       THEN [t EXCEPT !.err = "borrower_payments_amount_paid_check"]
  ELSE [t EXCEPT !.db.borrower_payments = Append(@, row)]

\* the FIFO loop over the sales selected ORDER BY sale_date ASC
RECURSIVE applyFIFO(_, _, _)
applyFIFO(t, rows, remaining) ==
  IF rows = <<>> \/ remaining <= 0 \/ t.err # "" THEN t
  ELSE LET s == Head(rows)
           apply == Min(remaining, s.borrow_amount)
           t1 == UpdateSale(t, s.id, NoCols,
                            [paid_amount |-> apply,
                             borrow_amount |-> 0 - apply])
       IN applyFIFO(t1, Tail(rows), remaining - apply)

\* a payment route that only inserts the payment and lowers the outstanding
\* amount, on a borrowers table without check
borrowerPaymentsTxn_Unguarded(d, req) ==
  LET t0 == BEGIN(d)
  IN IF req.borrower_id \notin 1..Len(d.borrowers)
     THEN [t0 EXCEPT !.err = "borrower_payments_borrower_id_fkey"]
     ELSE [InsertBorrowerPayment(t0, [borrower_id |-> req.borrower_id,
                                      amount_paid |-> req.amount])
             EXCEPT !.db.borrowers[req.borrower_id].outstanding_amount =
                      @ - req.amount]

\* a payment route that looks up no borrower and writes to a
\* borrower_payments table without foreign key
borrowerPaymentsTxn_NoLookup(d, req) ==
  LET t0 == BEGIN(d)
  IN IF req.borrower_id \notin 1..Len(d.borrowers)
     THEN [t0 EXCEPT !.db.borrower_payments =
             Append(@, [borrower_id |-> req.borrower_id,
                        amount_paid |-> req.amount])]
     ELSE LET borrowerName == d.borrowers[req.borrower_id].name
              t1 == InsertBorrowerPayment(t0, [borrower_id |-> req.borrower_id,
                                               amount_paid |-> req.amount])
              t2 == AddOutstanding(t1, req.borrower_id, 0 - req.amount)
              salesRes == ById({s \in t2.db.sales :
                                  /\ s.customer_name = borrowerName
                                  /\ s.borrow_amount > 0})
              t3 == applyFIFO(t2, salesRes, req.amount)
          IN syncBorrowerOutstanding(t3, borrowerName)

borrowerPaymentsTxn(d, req) ==
  LET t0 == BEGIN(d)
  IN IF req.borrower_id \notin 1..Len(d.borrowers)
     THEN [t0 EXCEPT !.err = "Borrower not found"]
     ELSE LET borrowerName == d.borrowers[req.borrower_id].name
              t1 == InsertBorrowerPayment(t0, [borrower_id |-> req.borrower_id,
                                               amount_paid |-> req.amount])
              t2 == AddOutstanding(t1, req.borrower_id, 0 - req.amount)
              salesRes == ById({s \in t2.db.sales :
                                  /\ s.customer_name = borrowerName
                                  /\ s.borrow_amount > 0})
              t3 == applyFIFO(t2, salesRes, req.amount)
          IN syncBorrowerOutstanding(t3, borrowerName)

borrowerPaymentsPOST(d, req) ==
  IF req.borrower_id = 0 \/ req.amount = 0
  THEN Response(d, FALSE, "Missing fields")
  ELSE Finish(d, borrowerPaymentsTxn(d, req))

\* ------------------------------------------------------- state machine
\* the clients of the pool that serve requests at the same time
Sessions == {1, 2}

\* no row
NoRows == [id \in {} |-> 0]

\* the body of a stock POST that is not there
NoStockReq == [name |-> NULL, price |-> 0, expiry_date |-> NoDate,
               quantity |-> 0]

\* the body of an edit-bill or delete-bill POST that is not there
NoBill == [sale_id |-> 0, customer_name |-> NULL, payment_type |-> "CASH",
           discount_amount |-> 0, paid_amount |-> 0, items |-> <<>>]

\* a client that serves no request: pc is the statement it is at, i the item
\* its loop is at, stock and
\* borrowers the values it has written to rows it holds locked, sales,
\* sale_items and newBorrowers the rows it has inserted, seen the snapshot of
\* its running UPDATE and found the result of its SELECT; lastExpiredCheck is
\* the module variable of the server process the client belongs to when the
\* clients are requests to different processes, rows the result of the
\* sweep's SELECT; op is the operation of the request, req the body of a
\* stock POST, pid the product id its
\* upsert returned, productLocks the products rows it holds locked,
\* newProducts and newStock the rows it has inserted; bill is the body of an
\* edit-bill or delete-bill POST, deleted the sale_items rows and gone the ids
\* of the sales it has deleted, header the sales rows it has updated, names
\* the customers whose borrower it has still to sync and sum the result of
\* the sync's SELECT SUM
IdleTxn == [pc |-> "idle", items |-> <<>>, i |-> 0, customer_name |-> NULL,
            borrow_amount |-> 0, saleId |-> 0, seen |-> NoRows, found |-> 0,
            stock |-> NoRows, sales |-> {}, sale_items |-> <<>>,
            borrowers |-> NoRows, newBorrowers |-> <<>>,
            ok |-> FALSE, err |-> "", op |-> "idle",
            lastExpiredCheck |-> NoDate, rows |-> <<>>,
            req |-> NoStockReq, pid |-> 0, productLocks |-> {},
            newProducts |-> <<>>, newStock |-> {},
            bill |-> NoBill, deleted |-> {}, header |-> {}, gone |-> {},
            names |-> <<>>, sum |-> 0]

\* the operations of the handler
Ops == {"addStock", "createSale", "editSale", "deleteSale", "recordPayment",
        "get"}

\* the record of a step that is not observed
Idle == [op |-> "idle", swept |-> FALSE, ok |-> TRUE, err |-> ""]

Init ==
  /\ products = <<>>
  /\ stock = {}
  /\ stockSeq = 0
  /\ expired_stock = <<>>
  /\ sales = {}
  /\ saleSeq = 0
  /\ sale_items = <<>>
  /\ borrowers = <<>>
  /\ borrower_payments = <<>>
  /\ today = 1
  /\ lastExpiredCheck = NoDate
  /\ last = Idle
  /\ txn = [s \in Sessions |-> IdleTxn]
  /\ shelf = 0

\* the model's caps on the tables that grow without limit
WithinBounds(d) ==
  /\ Len(d.products) <= MaxProducts
  /\ d.stockSeq <= MaxStockRows
  /\ Len(d.borrower_payments) <= MaxPayments

\* the database and the debounce date a request's route starts from, after
\* the handler's call of moveExpiredStock
Swept == moveExpiredStock(DB, lastExpiredCheck, today)

\* app.all("/api/server"): moveExpiredStock, then the route, whose outcome
\* is r; last records the request when the scenario observes the operation
Request(op, r, obs) ==
  /\ WithinBounds(r.db)
  /\ products' = r.db.products
  /\ stock' = r.db.stock
  /\ stockSeq' = r.db.stockSeq
  /\ expired_stock' = r.db.expired_stock
  /\ sales' = r.db.sales
  /\ saleSeq' = r.db.saleSeq
  /\ sale_items' = r.db.sale_items
  /\ borrowers' = r.db.borrowers
  /\ borrower_payments' = r.db.borrower_payments
  /\ lastExpiredCheck' = Swept.lastExpiredCheck
  /\ last' = IF op \in obs
              THEN [op |-> op, swept |-> lastExpiredCheck # today,
                    ok |-> r.ok, err |-> r.err]
              ELSE Idle
  /\ UNCHANGED <<today, txn, shelf>>

\* a GET route: the sweep and a read
readGET(d) == Response(d, TRUE, "")

AddStock(Reqs, obs) ==
  \E req \in Reqs :
    \E r \in {stockPOST(Swept.db, req)} :
      /\ \A row \in r.db.stock : row.quantity <= MaxQty
      /\ Request("addStock", r, obs)

CreateSale(Reqs, maxSales, obs) ==
  \E req \in Reqs :
    /\ saleSeq < maxSales
    /\ \E r \in {salesPOST(Swept.db, req)} : Request("createSale", r, obs)

EditSale(Reqs, obs) ==
  \E req \in Reqs :
    \E r \in {editBillPOST(Swept.db, req)} : Request("editSale", r, obs)

DeleteSale(Reqs, obs) ==
  \E req \in Reqs :
    \E r \in {deleteBillPOST(Swept.db, req)} : Request("deleteSale", r, obs)

RecordPayment(Reqs, obs) ==
  \E req \in Reqs :
    \E r \in {borrowerPaymentsPOST(Swept.db, req)} :
      Request("recordPayment", r, obs)

Get(obs) == \E r \in {readGET(Swept.db)} : Request("get", r, obs)

\* the calendar date moves on
NextDay ==
  /\ today < MaxDay
  /\ today' = today + 1
  /\ last' = Idle
  /\ UNCHANGED <<products, stock, stockSeq, expired_stock, sales, saleSeq,
                 sale_items, borrowers, borrower_payments, lastExpiredCheck,
                 txn, shelf>>

\* the server process starts anew: module state is initialised again
Restart ==
  /\ lastExpiredCheck # NoDate
  /\ lastExpiredCheck' = NoDate
  /\ last' = Idle
  /\ UNCHANGED <<products, stock, stockSeq, expired_stock, sales, saleSeq,
                 sale_items, borrowers, borrower_payments, today, txn, shelf>>

NextShelf ==
  \/ AddStock(StockReqs, Ops)
  \/ Get(Ops)
  \/ NextDay
  \/ Restart

\* the shelf scenario: stocking and the expiry sweep
SpecShelf == Init /\ [][NextShelf]_vars

Next ==
  \/ AddStock(ShopStockReqs, {"createSale"})
  \/ CreateSale(SaleReqs, MaxSales, {"createSale"})
  \/ EditSale(EditReqs, {"createSale"})
  \/ DeleteSale(DeleteReqs(MaxSales), {"createSale"})
  \/ Get({"createSale"})
  \/ NextDay

\* the inventory scenario: stocking, selling and the expiry sweep, with the
\* sales observed
Spec == Init /\ [][Next]_vars

NextStore ==
  \/ AddStock(ShopStockReqs, Ops)
  \/ CreateSale(SaleReqs, MaxSales, Ops)
  \/ EditSale(EditReqs, Ops)
  \/ DeleteSale(DeleteReqs(MaxSales), Ops)
  \/ Get(Ops)
  \/ NextDay

\* the store scenario: the inventory scenario with every operation observed
SpecStore == Init /\ [][NextStore]_vars

NextPrice ==
  \/ AddStock(LedgerStockReqs, Ops)
  \/ CreateSale(PriceSaleReqs, MaxSales, Ops)
  \/ EditSale(PriceEditReqs, Ops)
  \/ Get(Ops)

\* the price scenario: bills whose prices are the caller's, and their edits
SpecPrice == Init /\ [][NextPrice]_vars

NextLedger ==
  \/ AddStock(LedgerStockReqs, Ops)
  \/ CreateSale(LedgerSaleReqs, MaxSales, Ops)
  \/ EditSale(LedgerEditReqs, Ops)
  \/ DeleteSale(DeleteReqs(MaxSales), Ops)
  \/ RecordPayment(PaymentReqs, Ops)
  \/ Get(Ops)

NextTill ==
  \/ AddStock(ShopStockReqs, Ops)
  \/ CreateSale(TillSaleReqs, MaxSales, Ops)
  \/ Get(Ops)
  \/ NextDay

\* the till scenario: sales with empty or ill-formed item lists
SpecTill == Init /\ [][NextTill]_vars

NextTab ==
  \/ AddStock(CreditStockReqs, Ops)
  \/ CreateSale(TabSaleReqs, MaxCreditSales, Ops)
  \/ Get(Ops)

\* the tab scenario: several sales on credit, no edits
SpecTab == Init /\ [][NextTab]_vars

NextPay ==
  \/ AddStock(CreditStockReqs, Ops)
  \/ CreateSale(PaySaleReqs, MaxCreditSales, Ops)
  \/ RecordPayment(PayReqs, Ops)
  \/ Get(Ops)

\* the payment scenario: credit sales and payments
SpecPay == Init /\ [][NextPay]_vars

\* the operations the bill scenario observes
BillOps == Ops \ {"recordPayment"}

NextBill ==
  \/ AddStock(LedgerStockReqs, BillOps)
  \/ CreateSale(LedgerSaleReqs, MaxSales, BillOps)
  \/ EditSale(LedgerEditReqs, BillOps)
  \/ DeleteSale(DeleteReqs(MaxSales), BillOps)
  \/ Get(BillOps)

\* the bill scenario: the life of a sale, with the edits and deletes observed
SpecBill == Init /\ [][NextBill]_vars

\* the operations the archive scenario observes
ArchiveOps == {"editSale", "deleteSale", "recordPayment"}

NextArchive ==
  \/ AddStock(ArchiveStockReqs, ArchiveOps)
  \/ CreateSale(ArchiveSaleReqs, MaxSales, ArchiveOps)
  \/ EditSale(ArchiveEditReqs, ArchiveOps)
  \/ DeleteSale(DeleteReqs(MaxSales), ArchiveOps)
  \/ RecordPayment(ArchivePaymentReqs, ArchiveOps)
  \/ Get(ArchiveOps)
  \/ NextDay
  \/ Restart

\* the archive scenario: every operation and the sweep over several days
SpecArchive == Init /\ [][NextArchive]_vars

\* the credit scenario
SpecLedger == Init /\ [][NextLedger]_vars

NextCredit ==
  \/ AddStock(CreditStockReqs, Ops)
  \/ CreateSale(CreditSaleReqs, MaxCreditSales, Ops)
  \/ EditSale(CreditEditReqs, Ops)
  \/ DeleteSale(DeleteReqs(MaxCreditSales), Ops)
  \/ RecordPayment(CreditPaymentReqs, Ops)
  \/ Get(Ops)

\* the credit scenario with several bills
SpecCredit == Init /\ [][NextCredit]_vars

\* --------------------- route sales POST, one statement at a time
\* requests of the counter scenario: two customers at the counter ask at the
\* same time for pieces of the one article on the shelf, one pays cash, the
\* other buys on credit
ConcSaleReqs ==
  {[customer_name |-> c.name, payment_type |-> c.type,
    items |-> <<[product_id |-> 1, price |-> 2, quantity |-> q]>>,
    total_amount |-> 2 * q, discount_amount |-> 0,
    paid_amount |-> IF c.type = "CASH" THEN 2 * q ELSE 0]
   : q \in 1..MaxShelf,
     c \in {[name |-> NULL, type |-> "CASH"],
            [name |-> "Amit", type |-> "BORROW"]}}

\* the transaction of client s is open
Active(s) == txn[s].pc \notin {"idle", "done"}

\* another open transaction has written the stock row
StockLocked(s, id) ==
  \E o \in Sessions \ {s} : Active(o) /\ id \in DOMAIN txn[o].stock

\* another open transaction has written the borrowers row
BorrowerLocked(s, id) ==
  \E o \in Sessions \ {s} : Active(o) /\ id \in DOMAIN txn[o].borrowers

\* another open transaction has inserted a borrower of that name
BorrowerNameLocked(s, name) ==
  \E o \in Sessions \ {s} :
    /\ Active(o)
    /\ \E i \in 1..Len(txn[o].newBorrowers) : txn[o].newBorrowers[i].name = name

\* a statement of client s threw: the catch block is next
Throw(s, err) == [txn EXCEPT ![s].pc = "rollback", ![s].err = err]

\* the tables the statements of a step leave alone
ConcFrame ==
  UNCHANGED <<products, stock, stockSeq, expired_stock, sales, sale_items,
              borrowers, borrower_payments, today, lastExpiredCheck, last,
              shelf>>

\* the handler up to BEGIN: the sweep of the day has run, moveExpiredStock
\* returns at once
BeginSaleOf(Reqs, s) ==
  \E req \in Reqs :
    /\ txn[s].pc = "idle"
    /\ lastExpiredCheck = today
    /\ txn' = [txn EXCEPT ![s] =
                 IF req.items = <<>>
                 THEN [IdleTxn EXCEPT !.pc = "done", !.op = "createSale",
                                      !.err = "No sale items"]
                 ELSE [IdleTxn EXCEPT
                         !.pc = "sale",
                         !.op = "createSale",
                         !.items = req.items,
                         !.customer_name = req.customer_name,
                         !.borrow_amount =
                           IF req.payment_type = "BORROW"
                           THEN req.total_amount - req.paid_amount
                           ELSE 0,
                         !.sales = {[id |-> 0, sale_date |-> 0,
                                     customer_name |-> req.customer_name,
                                     payment_type |-> req.payment_type,
                                     total_amount |-> req.total_amount,
                                     discount_amount |-> req.discount_amount,
                                     paid_amount |-> req.paid_amount,
                                     borrow_amount |->
                                       IF req.payment_type = "BORROW"
                                       THEN req.total_amount - req.paid_amount
                                       ELSE 0]}]]
    /\ UNCHANGED saleSeq
    /\ ConcFrame

BeginSale(s) == BeginSaleOf(ConcSaleReqs, s)

\* INSERT INTO sales (...) RETURNING id
InsertSaleStmt(s) ==
  /\ txn[s].pc = "sale"
  /\ saleSeq' = saleSeq + 1
  /\ txn' = IF \A row \in txn[s].sales : SaleRowCheck(row)
            THEN [txn EXCEPT
                    ![s].sales = {[row EXCEPT !.id = saleSeq + 1,
                                              !.sale_date = saleSeq + 1]
                                  : row \in txn[s].sales},
                    ![s].saleId = saleSeq + 1,
                    ![s].i = 1,
                    ![s].pc = "debit"]
            ELSE Throw(s, "sales_check")
  /\ ConcFrame

\* UPDATE stock SET quantity = quantity - $1 WHERE product_id = $2 starts:
\* the statement takes its snapshot of the rows of the product
DebitStart(s) ==
  /\ txn[s].pc = "debit"
  /\ LET it == txn[s].items[txn[s].i]
         rows == {r \in stock : r.product_id = it.product_id}
     IN txn' = [txn EXCEPT
                  ![s].seen = [id \in {r.id : r \in rows} |->
                                 IF id \in DOMAIN txn[s].stock
                                 THEN txn[s].stock[id]
                                 ELSE (CHOOSE r \in rows : r.id = id).quantity],
                  ![s].pc = "lock"]
  /\ UNCHANGED saleSeq
  /\ ConcFrame

\* an UPDATE that writes the quantity computed from the snapshot it took
\* before it waited for the row
debitQuantity_FromSnapshot(latest, snapshot, q) == snapshot - q

\* the quantity the UPDATE writes: it is computed from the latest version of
\* the row, which the statement reads once it holds the row lock
debitQuantity(latest, snapshot, q) == latest - q

\* the UPDATE gets the row locks, which it waits for while another open
\* transaction holds one of them, and writes
DebitApply(s) ==
  /\ txn[s].pc = "lock"
  /\ \A id \in DOMAIN txn[s].seen : ~StockLocked(s, id)
  /\ LET it == txn[s].items[txn[s].i]
         rows == {r \in stock : r.id \in DOMAIN txn[s].seen}
         new == [id \in {r.id : r \in rows} |->
                   debitQuantity(
                     IF id \in DOMAIN txn[s].stock
                     THEN txn[s].stock[id]
                     ELSE (CHOOSE r \in rows : r.id = id).quantity,
                     txn[s].seen[id], it.quantity)]
     IN txn' = IF \A id \in DOMAIN new : StockQuantityCheck(new[id])
               THEN [txn EXCEPT
                       ![s].stock = [id \in DOMAIN new \cup DOMAIN txn[s].stock |->
                                       IF id \in DOMAIN new THEN new[id]
                                       ELSE txn[s].stock[id]],
                       ![s].pc = "item"]
               ELSE Throw(s, "stock_quantity_check")
  /\ UNCHANGED saleSeq
  /\ ConcFrame

\* INSERT INTO sale_items (sale_id, product_id, price, quantity, line_total)
InsertItemStmt(s) ==
  /\ txn[s].pc = "item"
  /\ LET it == txn[s].items[txn[s].i]
         row == [sale_id |-> txn[s].saleId, product_id |-> it.product_id,
                 price |-> it.price, quantity |-> it.quantity,
                 line_total |-> it.price * it.quantity]
     IN txn' = IF it.product_id \notin 1..Len(products)
               THEN Throw(s, "sale_items_product_id_fkey")
               ELSE IF ~SaleItemRowCheck(row)
               THEN Throw(s, "sale_items_check")
               ELSE [txn EXCEPT
                       ![s].sale_items = Append(@, row),
                       ![s].i = @ + 1,
                       ![s].pc = IF txn[s].i = Len(txn[s].items)
                                 THEN "borrower" ELSE "debit"]
  /\ UNCHANGED saleSeq
  /\ ConcFrame

\* if (borrow_amount > 0 && customer_name): SELECT * FROM borrowers WHERE
\* name = $1, which sees the committed rows
BorrowerSelect(s) ==
  /\ txn[s].pc = "borrower"
  /\ txn' = IF txn[s].borrow_amount > 0 /\ txn[s].customer_name # NULL
            THEN [txn EXCEPT ![s].found = BorrowerId(DB, txn[s].customer_name),
                             ![s].pc = "upsert"]
            ELSE [txn EXCEPT ![s].pc = "commit"]
  /\ UNCHANGED saleSeq
  /\ ConcFrame

\* INSERT INTO borrowers, which waits for an open transaction that inserted
\* the name, or UPDATE borrowers SET outstanding_amount =
\* outstanding_amount + $1, which waits for the row lock
BorrowerWrite(s) ==
  /\ txn[s].pc = "upsert"
  /\ IF txn[s].found = 0
     THEN /\ ~BorrowerNameLocked(s, txn[s].customer_name)
          /\ txn' = IF BorrowerId(DB, txn[s].customer_name) # 0
                    THEN Throw(s, "borrowers_name_key")
                    ELSE IF ~BorrowerRowCheck(
                               [outstanding_amount |-> txn[s].borrow_amount])
                    THEN Throw(s, "borrowers_outstanding_amount_check")
                    ELSE [txn EXCEPT
                            ![s].newBorrowers =
                              <<[name |-> txn[s].customer_name,
                                 outstanding_amount |-> txn[s].borrow_amount]>>,
                            ![s].pc = "commit"]
     ELSE /\ ~BorrowerLocked(s, txn[s].found)
          /\ LET amount == borrowers[txn[s].found].outstanding_amount
                             + txn[s].borrow_amount
             IN txn' = IF ~BorrowerRowCheck([outstanding_amount |-> amount])
                       THEN Throw(s, "borrowers_outstanding_amount_check")
                       ELSE [txn EXCEPT
                               ![s].borrowers = [id \in {txn[s].found} |-> amount],
                               ![s].pc = "commit"]
  /\ UNCHANGED saleSeq
  /\ ConcFrame

\* the request of client s is answered
Answered(s, ok) ==
  [txn EXCEPT ![s].pc = "done", ![s].ok = ok, ![s].stock = NoRows,
              ![s].sales = {}, ![s].sale_items = <<>>,
              ![s].borrowers = NoRows, ![s].newBorrowers = <<>>,
              ![s].productLocks = {}, ![s].newProducts = <<>>,
              ![s].newStock = {}, ![s].deleted = {}, ![s].header = {},
              ![s].gone = {}]

\* COMMIT: what the transaction wrote becomes the committed state and its
\* locks are gone
CommitStmt(s) ==
  /\ txn[s].pc = "commit"
  /\ products' = products \o txn[s].newProducts
  /\ stock' = {IF r.id \in DOMAIN txn[s].stock
               THEN [r EXCEPT !.quantity = txn[s].stock[r.id]]
               ELSE r : r \in stock} \cup txn[s].newStock
  /\ sales' = sales \cup txn[s].sales
  /\ sale_items' = sale_items \o txn[s].sale_items
  /\ borrowers' = [i \in 1..Len(borrowers) |->
                     IF i \in DOMAIN txn[s].borrowers
                     THEN [borrowers[i] EXCEPT
                             !.outstanding_amount = txn[s].borrowers[i]]
                     ELSE borrowers[i]] \o txn[s].newBorrowers
  /\ txn' = Answered(s, TRUE)
  /\ last' = [op |-> txn[s].op, swept |-> FALSE, ok |-> TRUE, err |-> ""]
  /\ UNCHANGED <<stockSeq, expired_stock, saleSeq, borrower_payments,
                 today, lastExpiredCheck, shelf>>

\* a catch block that answers without ROLLBACK and keeps the client: the
\* transaction stays open with its locks
RollbackStmt_NoRollback(s) ==
  /\ txn[s].pc = "rollback"
  /\ txn' = [txn EXCEPT ![s].pc = "failed"]
  /\ last' = [op |-> txn[s].op, swept |-> FALSE, ok |-> FALSE,
              err |-> txn[s].err]
  /\ UNCHANGED <<products, stock, stockSeq, expired_stock, sales, saleSeq,
                 sale_items, borrowers, borrower_payments, today,
                 lastExpiredCheck, shelf>>

\* catch: ROLLBACK, what the transaction wrote is dropped and its locks are
\* gone
RollbackStmt(s) ==
  /\ txn[s].pc = "rollback"
  /\ txn' = Answered(s, FALSE)
  /\ last' = [op |-> txn[s].op, swept |-> FALSE, ok |-> FALSE,
              err |-> txn[s].err]
  /\ UNCHANGED <<products, stock, stockSeq, expired_stock, sales, saleSeq,
                 sale_items, borrowers, borrower_payments, today,
                 lastExpiredCheck, shelf>>

\* the shop on a day whose sweep has run, with one article on the shelf that
\* does not expire
InitConc ==
  /\ shelf \in 1..MaxShelf
  /\ products = <<[name |-> "Widget", price |-> 2, expiry_date |-> MaxDay]>>
  /\ stock = {[id |-> 1, product_id |-> 1, quantity |-> shelf]}
  /\ stockSeq = 1
  /\ expired_stock = <<>>
  /\ sales = {}
  /\ saleSeq = 0
  /\ sale_items = <<>>
  /\ borrowers = <<>>
  /\ borrower_payments = <<>>
  /\ today = 1
  /\ lastExpiredCheck = 1
  /\ last = Idle
  /\ txn = [s \in Sessions |-> IdleTxn]

NextConc ==
  \/ \E s \in Sessions : BeginSale(s)
  \/ \E s \in Sessions : InsertSaleStmt(s)
  \/ \E s \in Sessions : DebitStart(s)
  \/ \E s \in Sessions : DebitApply(s)
  \/ \E s \in Sessions : InsertItemStmt(s)
  \/ \E s \in Sessions : BorrowerSelect(s)
  \/ \E s \in Sessions : BorrowerWrite(s)
  \/ \E s \in Sessions : CommitStmt(s)
  \/ \E s \in Sessions : RollbackStmt(s)

\* the counter scenario: two sales at the same time
SpecConc == InitConc /\ [][NextConc]_vars

\* ------------------------- moveExpiredStock, one statement at a time
\* the shop of the sweep scenario on the morning of day 2: q pieces of an
\* article that expired on day 1, an empty row of a second expired article
\* and one piece of an article that has not expired
SweepShelf(q) ==
  [products |-> <<[name |-> "Milk", price |-> 2, expiry_date |-> 1],
                  [name |-> "Curd", price |-> 2, expiry_date |-> 1],
                  [name |-> "Salt", price |-> 2, expiry_date |-> MaxDay]>>,
   stock |-> {[id |-> 1, product_id |-> 1, quantity |-> q],
              [id |-> 2, product_id |-> 2, quantity |-> 0],
              [id |-> 3, product_id |-> 3, quantity |-> 1]},
   stockSeq |-> 3, expired_stock |-> <<>>, sales |-> {}, saleSeq |-> 0,
   sale_items |-> <<>>, borrowers |-> <<>>, borrower_payments |-> <<>>]

\* what a sweep statement leaves alone: every statement of moveExpiredStock
\* goes through the pool and commits on its own
SweepFrame ==
  UNCHANGED <<products, stockSeq, sales, saleSeq, sale_items, borrowers,
              borrower_payments, today, lastExpiredCheck, last, shelf>>

\* if (lastExpiredCheck === today) return; lastExpiredCheck = today;
SweepBegin(s) ==
  /\ txn[s].pc = "idle"
  /\ txn[s].lastExpiredCheck # today
  /\ txn' = [txn EXCEPT ![s].lastExpiredCheck = today,
                         ![s].pc = "sweepSelect"]
  /\ UNCHANGED <<stock, expired_stock>>
  /\ SweepFrame

\* SELECT s.id, s.product_id, s.quantity FROM stock s JOIN products p ...
\* WHERE p.expiry_date < $1
SweepSelect(s) ==
  /\ txn[s].pc = "sweepSelect"
  /\ LET rows == expiredRows(DB, today)
     IN txn' = [txn EXCEPT ![s].rows = rows,
                           ![s].pc = IF rows = <<>> THEN "done"
                                     ELSE "sweepInsert",
                           ![s].ok = (rows = <<>>)]
  /\ UNCHANGED <<stock, expired_stock>>
  /\ SweepFrame

\* if (row.quantity > 0) INSERT INTO expired_stock (product_id, quantity,
\* expired_date)
SweepInsert(s) ==
  /\ txn[s].pc = "sweepInsert"
  /\ LET row == Head(txn[s].rows)
     IN expired_stock' = IF row.quantity > 0
                         THEN Append(expired_stock,
                                     [product_id |-> row.product_id,
                                      quantity |-> row.quantity,
                                      expired_date |-> today])
                         ELSE expired_stock
  /\ txn' = [txn EXCEPT ![s].pc = "sweepDelete"]
  /\ UNCHANGED stock
  /\ SweepFrame

\* DELETE FROM stock WHERE id = $1, which waits while an open transaction
\* holds the row locked
SweepDelete(s) ==
  /\ txn[s].pc = "sweepDelete"
  /\ ~StockLocked(s, Head(txn[s].rows).id)
  /\ stock' = {r \in stock : r.id # Head(txn[s].rows).id}
  /\ txn' = [txn EXCEPT ![s].rows = Tail(@),
                         ![s].pc = IF Tail(txn[s].rows) = <<>> THEN "done"
                                   ELSE "sweepInsert",
                         ![s].ok = (Tail(txn[s].rows) = <<>>)]
  /\ UNCHANGED expired_stock
  /\ SweepFrame

\* two server processes, each with a lastExpiredCheck of its own that is
\* unset or of the day before, get a request on the morning of day 2
InitSweep ==
  /\ shelf \in 1..MaxShelf
  /\ products = SweepShelf(shelf).products
  /\ stock = SweepShelf(shelf).stock
  /\ stockSeq = SweepShelf(shelf).stockSeq
  /\ expired_stock = <<>>
  /\ sales = {}
  /\ saleSeq = 0
  /\ sale_items = <<>>
  /\ borrowers = <<>>
  /\ borrower_payments = <<>>
  /\ today = 2
  /\ lastExpiredCheck = NoDate
  /\ last = Idle
  /\ txn \in [Sessions -> {[IdleTxn EXCEPT !.lastExpiredCheck = d]
                           : d \in {NoDate, 1}}]

NextSweep ==
  \/ \E s \in Sessions : SweepBegin(s)
  \/ \E s \in Sessions : SweepSelect(s)
  \/ \E s \in Sessions : SweepInsert(s)
  \/ \E s \in Sessions : SweepDelete(s)

\* the sweep scenario: two processes sweep at the same time
SpecSweep == InitSweep /\ [][NextSweep]_vars

\* ------------------------- route stock POST, one statement at a time
\* requests of the intake scenario: two clients stock the same article at
\* the same time
ConcStockReqs ==
  [name : {"Widget"}, price : {2}, expiry_date : {1}, quantity : {-1, 1}]

\* a products upsert that takes no lock and waits for nobody
ProductLocked_Off(s, id) == FALSE

\* another open transaction has inserted or updated the products row: INSERT
\* ... ON CONFLICT (name, price, expiry_date) DO UPDATE waits for it
ProductLocked(s, id) ==
  \E o \in Sessions \ {s} : Active(o) /\ id \in txn[o].productLocks

\* the validation of the body, then BEGIN
BeginStock(s) ==
  \E req \in ConcStockReqs :
    /\ txn[s].pc = "idle"
    /\ lastExpiredCheck = today
    /\ txn' = [txn EXCEPT ![s] =
                 IF req.price = 0 \/ req.quantity = 0
                 THEN [IdleTxn EXCEPT !.pc = "done", !.op = "addStock",
                                      !.err = "Missing fields"]
                 ELSE [IdleTxn EXCEPT !.pc = "product", !.op = "addStock",
                                      !.req = req]]
    /\ UNCHANGED saleSeq
    /\ ConcFrame

\* INSERT INTO products ... ON CONFLICT (name, price, expiry_date) DO UPDATE
\* SET name = EXCLUDED.name RETURNING id: the statement waits while another
\* open transaction holds the row, then inserts the row or updates and locks
\* the committed one
ProductUpsert(s) ==
  /\ txn[s].pc = "product"
  /\ LET req == txn[s].req
         id == ProductId(DB, req.name, req.price, req.expiry_date)
     IN /\ ~ProductLocked(s, id)
        /\ txn' = [txn EXCEPT
                     ![s].pid = id,
                     ![s].productLocks = {id},
                     ![s].newProducts =
                       IF id <= Len(products) THEN <<>>
                       ELSE <<[name |-> req.name, price |-> req.price,
                               expiry_date |-> req.expiry_date]>>,
                     ![s].pc = "select"]
  /\ UNCHANGED saleSeq
  /\ ConcFrame

\* SELECT * FROM stock WHERE product_id = $1, which sees the committed rows
StockSelect(s) ==
  /\ txn[s].pc = "select"
  /\ LET rows == {r \in stock : r.product_id = txn[s].pid}
     IN txn' = [txn EXCEPT
                  ![s].seen = [id \in {r.id : r \in rows} |->
                                 (CHOOSE r \in rows : r.id = id).quantity],
                  ![s].pc = "write"]
  /\ UNCHANGED saleSeq
  /\ ConcFrame

\* INSERT INTO stock (product_id, quantity) when the SELECT found no row,
\* else UPDATE stock SET quantity = quantity + $1 WHERE product_id = $2,
\* which waits for the row locks
StockWrite(s) ==
  /\ txn[s].pc = "write"
  /\ IF txn[s].seen = NoRows
     THEN /\ stockSeq' = stockSeq + 1
          /\ txn' = IF StockQuantityCheck(txn[s].req.quantity)
                    THEN [txn EXCEPT
                            ![s].newStock = {[id |-> stockSeq + 1,
                                              product_id |-> txn[s].pid,
                                              quantity |-> txn[s].req.quantity]},
                            ![s].pc = "commit"]
                    ELSE Throw(s, "stock_quantity_check")
     ELSE LET rows == {r \in stock : r.product_id = txn[s].pid}
              new == [id \in {r.id : r \in rows} |->
                        (CHOOSE r \in rows : r.id = id).quantity
                          + txn[s].req.quantity]
          IN /\ \A r \in rows : ~StockLocked(s, r.id)
             /\ stockSeq' = stockSeq
             /\ txn' = IF \A id \in DOMAIN new : StockQuantityCheck(new[id])
                       THEN [txn EXCEPT ![s].stock = new, ![s].pc = "commit"]
                       ELSE Throw(s, "stock_quantity_check")
  /\ UNCHANGED <<products, stock, expired_stock, sales, saleSeq, sale_items,
                 borrowers, borrower_payments, today, lastExpiredCheck, last,
                 shelf>>

\* the shop of the intake scenario on day 2, after the sweep of the day: the
\* article, which expired on day 1, is unknown, or known without a stock row
\* because the sweep removed it, or has been stocked again since
InitStock ==
  /\ shelf \in 0..MaxShelf
  /\ products \in {<<>>, <<[name |-> "Widget", price |-> 2, expiry_date |-> 1]>>}
  /\ stock = IF shelf = 0 THEN {}
             ELSE {[id |-> 2, product_id |-> 1, quantity |-> shelf]}
  /\ products = <<>> => shelf = 0
  /\ stockSeq = IF products = <<>> THEN 0 ELSE IF shelf = 0 THEN 1 ELSE 2
  /\ expired_stock = IF products = <<>> THEN <<>>
                     ELSE <<[product_id |-> 1, quantity |-> 1,
                             expired_date |-> 2]>>
  /\ sales = {}
  /\ saleSeq = 0
  /\ sale_items = <<>>
  /\ borrowers = <<>>
  /\ borrower_payments = <<>>
  /\ today = 2
  /\ lastExpiredCheck = 2
  /\ last = Idle
  /\ txn = [s \in Sessions |-> IdleTxn]

NextStock ==
  \/ \E s \in Sessions : BeginStock(s)
  \/ \E s \in Sessions : ProductUpsert(s)
  \/ \E s \in Sessions : StockSelect(s)
  \/ \E s \in Sessions : StockWrite(s)
  \/ \E s \in Sessions : CommitStmt(s)
  \/ \E s \in Sessions : RollbackStmt(s)

\* the intake scenario: two stock POSTs at the same time
SpecStock == InitStock /\ [][NextStock]_vars

\* ------------------ a sale while the sweep of another request is running
\* if (lastExpiredCheck === today) return; lastExpiredCheck = today; in the
\* one server process both clients belong to
SweepStart(s) ==
  /\ txn[s].pc = "idle"
  /\ lastExpiredCheck # today
  /\ lastExpiredCheck' = today
  /\ txn' = [txn EXCEPT ![s].pc = "sweepSelect", ![s].op = "get"]
  /\ UNCHANGED <<products, stock, stockSeq, expired_stock, sales, saleSeq,
                 sale_items, borrowers, borrower_payments, today, last, shelf>>

\* the process has swept on day 1 and gets its first requests of day 2
InitRush ==
  /\ shelf \in 1..MaxShelf
  /\ products = SweepShelf(shelf).products
  /\ stock = SweepShelf(shelf).stock
  /\ stockSeq = SweepShelf(shelf).stockSeq
  /\ expired_stock = <<>>
  /\ sales = {}
  /\ saleSeq = 0
  /\ sale_items = <<>>
  /\ borrowers = <<>>
  /\ borrower_payments = <<>>
  /\ today = 2
  /\ lastExpiredCheck = 1
  /\ last = Idle
  /\ txn = [s \in Sessions |-> IdleTxn]

NextRush ==
  \/ \E s \in Sessions : SweepStart(s)
  \/ \E s \in Sessions : SweepSelect(s)
  \/ \E s \in Sessions : SweepInsert(s)
  \/ \E s \in Sessions : SweepDelete(s)
  \/ \E s \in Sessions : BeginSale(s)
  \/ \E s \in Sessions : InsertSaleStmt(s)
  \/ \E s \in Sessions : DebitStart(s)
  \/ \E s \in Sessions : DebitApply(s)
  \/ \E s \in Sessions : InsertItemStmt(s)
  \/ \E s \in Sessions : BorrowerSelect(s)
  \/ \E s \in Sessions : BorrowerWrite(s)
  \/ \E s \in Sessions : CommitStmt(s)
  \/ \E s \in Sessions : RollbackStmt(s)

\* the rush scenario: the first request of the day sweeps while a second
\* request of the same process sells
SpecRush == InitRush /\ [][NextRush]_vars

\* ------------------------------------- a sweep that fails partway
\* a statement of moveExpiredStock throws (the pool gives no client, the
\* connection is lost): the handler's catch answers 500
SweepFail(s) ==
  /\ txn[s].pc \in {"sweepSelect", "sweepInsert", "sweepDelete"}
  /\ txn' = [txn EXCEPT ![s].pc = "done", ![s].ok = FALSE,
                         ![s].err = "Connection terminated", ![s].rows = <<>>]
  /\ UNCHANGED <<stock, expired_stock>>
  /\ SweepFrame

\* a request that finds lastExpiredCheck === today: moveExpiredStock returns
\* at once and the route reads
SweepSkip(s) ==
  /\ txn[s].pc = "idle"
  /\ lastExpiredCheck = today
  /\ txn' = [txn EXCEPT ![s].pc = "done", ![s].op = "get", ![s].ok = TRUE,
                         ![s].err = ""]
  /\ UNCHANGED <<stock, expired_stock>>
  /\ SweepFrame

\* the client is released and serves the next request
Release(s) ==
  /\ txn[s].pc = "done"
  /\ txn' = [txn EXCEPT ![s] = IdleTxn]
  /\ UNCHANGED <<stock, expired_stock>>
  /\ SweepFrame

\* the process is new or has swept already on day 1, the day before two of
\* the articles count as expired
InitFail ==
  /\ shelf \in 1..MaxShelf
  /\ products = SweepShelf(shelf).products
  /\ stock = SweepShelf(shelf).stock
  /\ stockSeq = SweepShelf(shelf).stockSeq
  /\ expired_stock = <<>>
  /\ sales = {}
  /\ saleSeq = 0
  /\ sale_items = <<>>
  /\ borrowers = <<>>
  /\ borrower_payments = <<>>
  /\ today = 1
  /\ lastExpiredCheck \in {NoDate, 1}
  /\ last = Idle
  /\ txn = [s \in Sessions |-> IdleTxn]

NextFail ==
  \/ \E s \in Sessions : SweepStart(s)
  \/ \E s \in Sessions : SweepSelect(s)
  \/ \E s \in Sessions : SweepInsert(s)
  \/ \E s \in Sessions : SweepDelete(s)
  \/ \E s \in Sessions : SweepFail(s)
  \/ \E s \in Sessions : SweepSkip(s)
  \/ \E s \in Sessions : Release(s)
  \/ NextDay

\* requests keep coming and every statement that can run does; a failure
\* may happen, it need not
FairFail ==
  \A s \in Sessions :
    /\ WF_vars(SweepStart(s))
    /\ WF_vars(SweepSelect(s))
    /\ WF_vars(SweepInsert(s))
    /\ WF_vars(SweepDelete(s))
    /\ WF_vars(SweepSkip(s))
    /\ WF_vars(Release(s))

\* the outage scenario: one process, sweeps that may fail partway
\* and the requests after them
SpecFail == InitFail /\ [][NextFail]_vars /\ FairFail

\* ------------- routes edit-bill and delete-bill POST, one statement at a time
\* requests of the desk scenario: the one bill of the day is edited to one or
\* two pieces of its article, or deleted
DeskEditReqs ==
  [sale_id : {1}, customer_name : {NULL}, payment_type : {"CASH"},
   discount_amount : {0}, paid_amount : {2},
   items : {<<[product_id |-> 1, quantity |-> q]>> : q \in 1..2}]
DeskDeleteReqs == DeleteReqs(1)

\* another open transaction has updated or deleted the sales row
SaleLocked(s, id) ==
  \E o \in Sessions \ {s} :
    /\ Active(o)
    /\ id \in txn[o].gone \cup {x.id : x \in txn[o].header}

\* another open transaction has deleted sale_items rows of the sale
ItemsLocked(s, id) ==
  \E o \in Sessions \ {s} :
    Active(o) /\ \E r \in txn[o].deleted : r.sale_id = id

\* the sales and the sale_items a statement of client s sees: the committed
\* rows with what its own transaction has written
ViewSales(s) ==
  {x \in sales : x.id \notin txn[s].gone \cup {h.id : h \in txn[s].header}}
    \cup txn[s].header

ViewItems(s) ==
  SelectSeq(sale_items, LAMBDA it : it \notin txn[s].deleted)
    \o txn[s].sale_items

\* the stock quantity of a row as client s sees it
ViewQuantity(s, r) ==
  IF r.id \in DOMAIN txn[s].stock THEN txn[s].stock[r.id] ELSE r.quantity

\* the handler up to BEGIN of edit-bill: the sweep of the day has run
BeginEdit(Reqs, s) ==
  \E req \in Reqs :
    /\ txn[s].pc = "idle"
    /\ lastExpiredCheck = today
    /\ txn' = [txn EXCEPT ![s] =
                 IF req.sale_id = 0
                 THEN [IdleTxn EXCEPT !.pc = "done", !.op = "editSale",
                                      !.err = "Missing sale_id or items"]
                 ELSE [IdleTxn EXCEPT !.pc = "findSale", !.op = "editSale",
                                      !.bill = req, !.saleId = req.sale_id,
                                      !.items = req.items]]
    /\ UNCHANGED saleSeq
    /\ ConcFrame

\* the handler up to BEGIN of delete-bill
BeginDelete(Reqs, s) ==
  \E req \in Reqs :
    /\ txn[s].pc = "idle"
    /\ lastExpiredCheck = today
    /\ txn' = [txn EXCEPT ![s] =
                 IF req.sale_id = 0
                 THEN [IdleTxn EXCEPT !.pc = "done", !.op = "deleteSale",
                                      !.err = "sale_id required"]
                 ELSE [IdleTxn EXCEPT !.pc = "findSale", !.op = "deleteSale",
                                      !.bill = [NoBill EXCEPT
                                                  !.sale_id = req.sale_id],
                                      !.saleId = req.sale_id]]
    /\ UNCHANGED saleSeq
    /\ ConcFrame

\* SELECT * FROM sales WHERE id = $1, which sees the committed rows
SaleSelect(s) ==
  /\ txn[s].pc = "findSale"
  /\ txn' = IF \E x \in sales : x.id = txn[s].saleId
            THEN [txn EXCEPT
                    ![s].customer_name =
                      (CHOOSE x \in sales : x.id = txn[s].saleId).customer_name,
                    ![s].pc = "oldItems"]
            ELSE Throw(s, "Sale not found")
  /\ UNCHANGED saleSeq
  /\ ConcFrame

\* SELECT * FROM sale_items WHERE sale_id = $1, which sees the committed rows
ItemsSelect(s) ==
  /\ txn[s].pc = "oldItems"
  /\ LET rows == ItemsOf(DB, txn[s].saleId)
     IN txn' = [txn EXCEPT ![s].rows = rows,
                           ![s].pc = IF rows = <<>> THEN "deleteItems"
                                     ELSE "restore"]
  /\ UNCHANGED saleSeq
  /\ ConcFrame

\* the quantity a restore credits: that of the item row the SELECT returned
restoreQuantity(s, it) == it.quantity

\* UPDATE stock SET quantity = quantity + $1 WHERE product_id = $2 for the
\* next old item: it waits for the row locks and adds to the latest version
RestoreStmt(s) ==
  /\ txn[s].pc = "restore"
  /\ LET it == Head(txn[s].rows)
         rows == {r \in stock : r.product_id = it.product_id}
         new == [id \in {r.id : r \in rows} |->
                   ViewQuantity(s, CHOOSE r \in rows : r.id = id)
                     + restoreQuantity(s, it)]
     IN /\ \A r \in rows : ~StockLocked(s, r.id)
        /\ txn' = IF \A id \in DOMAIN new : StockQuantityCheck(new[id])
                  THEN [txn EXCEPT
                          ![s].stock = [id \in DOMAIN new \cup DOMAIN txn[s].stock |->
                                          IF id \in DOMAIN new THEN new[id]
                                          ELSE txn[s].stock[id]],
                          ![s].rows = Tail(@),
                          ![s].pc = IF Tail(txn[s].rows) = <<>>
                                    THEN "deleteItems" ELSE "restore"]
                  ELSE Throw(s, "stock_quantity_check")
  /\ UNCHANGED saleSeq
  /\ ConcFrame

\* DELETE FROM sale_items WHERE sale_id = $1, which waits for the rows another
\* open transaction has deleted
DeleteItemsStmt(s) ==
  /\ txn[s].pc = "deleteItems"
  /\ ~ItemsLocked(s, txn[s].saleId)
  /\ txn' = [txn EXCEPT
               ![s].deleted = {sale_items[k] : k \in {j \in 1..Len(sale_items) :
                                 sale_items[j].sale_id = txn[s].saleId}},
               ![s].i = 1,
               ![s].pc = IF txn[s].op = "deleteSale" THEN "deleteSale"
                         ELSE IF txn[s].items = <<>> THEN "header"
                         ELSE "newItem"]
  /\ UNCHANGED saleSeq
  /\ ConcFrame

\* the next item of the edit: if (qty <= 0) continue; SELECT price FROM
\* products; UPDATE stock SET quantity = quantity - $1 WHERE product_id = $2
NewItemDebit(s) ==
  /\ txn[s].pc = "newItem"
  /\ LET it == txn[s].items[txn[s].i]
         rows == {r \in stock : r.product_id = it.product_id}
         new == [id \in {r.id : r \in rows} |->
                   ViewQuantity(s, CHOOSE r \in rows : r.id = id) - it.quantity]
     IN IF it.quantity <= 0
        THEN txn' = [txn EXCEPT ![s].i = @ + 1,
                                ![s].pc = IF txn[s].i = Len(txn[s].items)
                                          THEN "header" ELSE "newItem"]
        ELSE IF it.product_id \notin 1..Len(products)
        THEN txn' = Throw(s, "Invalid product in edit")
        ELSE /\ \A r \in rows : ~StockLocked(s, r.id)
             /\ txn' = IF \A id \in DOMAIN new : StockQuantityCheck(new[id])
                       THEN [txn EXCEPT
                               ![s].stock =
                                 [id \in DOMAIN new \cup DOMAIN txn[s].stock |->
                                    IF id \in DOMAIN new THEN new[id]
                                    ELSE txn[s].stock[id]],
                               ![s].pc = "insertItem"]
                       ELSE Throw(s, "stock_quantity_check")
  /\ UNCHANGED saleSeq
  /\ ConcFrame

\* INSERT INTO sale_items (sale_id, product_id, price, quantity, line_total)
\* with the product's price; the foreign key waits for an open transaction
\* that has deleted the sale
NewItemInsert(s) ==
  /\ txn[s].pc = "insertItem"
  /\ \A o \in Sessions \ {s} : Active(o) => txn[s].saleId \notin txn[o].gone
  /\ LET it == txn[s].items[txn[s].i]
         price == products[it.product_id].price
         row == [sale_id |-> txn[s].saleId, product_id |-> it.product_id,
                 price |-> price, quantity |-> it.quantity,
                 line_total |-> price * it.quantity]
     IN txn' = IF ~(\E x \in ViewSales(s) : x.id = txn[s].saleId)
               THEN Throw(s, "sale_items_sale_id_fkey")
               ELSE IF ~SaleItemRowCheck(row)
               THEN Throw(s, "sale_items_check")
               ELSE [txn EXCEPT
                       ![s].sale_items = Append(@, row),
                       ![s].i = @ + 1,
                       ![s].pc = IF txn[s].i = Len(txn[s].items)
                                 THEN "header" ELSE "newItem"]
  /\ UNCHANGED saleSeq
  /\ ConcFrame

\* UPDATE sales SET customer_name, payment_type, discount_amount, paid_amount
\* WHERE id = $5, which waits for the row lock
HeaderStmt(s) ==
  /\ txn[s].pc = "header"
  /\ ~SaleLocked(s, txn[s].saleId)
  /\ LET new == {[x EXCEPT !.customer_name = txn[s].bill.customer_name,
                           !.payment_type = txn[s].bill.payment_type,
                           !.discount_amount = txn[s].bill.discount_amount,
                           !.paid_amount = txn[s].bill.paid_amount]
                 : x \in {y \in ViewSales(s) : y.id = txn[s].saleId}}
     IN txn' = IF \A x \in new : SaleRowCheck(x)
               THEN [txn EXCEPT ![s].header = new, ![s].pc = "recompute"]
               ELSE Throw(s, "sales_check")
  /\ UNCHANGED saleSeq
  /\ ConcFrame

\* recomputeSaleTotals: SELECT quantity, price FROM sale_items, SELECT
\* payment_type, paid_amount FROM sales, UPDATE sales SET total_amount,
\* borrow_amount on the row the transaction holds locked
RecomputeStmt(s) ==
  /\ txn[s].pc = "recompute"
  /\ LET its == SelectSeq(ViewItems(s), LAMBDA it : it.sale_id = txn[s].saleId)
         total == SumSeq([k \in 1..Len(its) |-> its[k].price * its[k].quantity])
         new == {[x EXCEPT !.total_amount = total,
                           !.borrow_amount =
                             IF x.payment_type = "BORROW"
                             THEN (IF total - x.paid_amount < 0 THEN 0
                                   ELSE total - x.paid_amount)
                             ELSE 0]
                 : x \in txn[s].header}
         oldCustomer == txn[s].customer_name
         customer_name == txn[s].bill.customer_name
     IN txn' = IF txn[s].header = {}
               THEN Throw(s, "Cannot read properties of undefined")
               ELSE IF ~(\A x \in new : SaleRowCheck(x))
               THEN Throw(s, "sales_check")
               ELSE [txn EXCEPT
                       ![s].header = new,
                       ![s].names =
                         (IF oldCustomer # NULL /\ oldCustomer # customer_name
                          THEN <<oldCustomer>> ELSE <<>>)
                           \o (IF customer_name # NULL THEN <<customer_name>>
                               ELSE <<>>),
                       ![s].pc = "sync"]
  /\ UNCHANGED saleSeq
  /\ ConcFrame

\* DELETE FROM sales WHERE id = $1, which waits for the row lock and takes
\* the sale's items with it (ON DELETE CASCADE)
DeleteSaleStmt(s) ==
  /\ txn[s].pc = "deleteSale"
  /\ ~SaleLocked(s, txn[s].saleId)
  /\ ~ItemsLocked(s, txn[s].saleId)
  /\ txn' = [txn EXCEPT
               ![s].gone = {x.id : x \in {y \in sales : y.id = txn[s].saleId}},
               ![s].deleted = @ \cup
                 {sale_items[k] : k \in {j \in 1..Len(sale_items) :
                                    sale_items[j].sale_id = txn[s].saleId}},
               ![s].names = IF txn[s].customer_name # NULL
                            THEN <<txn[s].customer_name>> ELSE <<>>,
               ![s].pc = "sync"]
  /\ UNCHANGED saleSeq
  /\ ConcFrame

\* syncBorrowerOutstanding for the next customer: SELECT id FROM borrowers
\* WHERE name = $1; if (borrowerRes.rows.length === 0) return
SyncSelect(s) ==
  /\ txn[s].pc = "sync"
  /\ txn' = IF txn[s].names = <<>>
            THEN [txn EXCEPT ![s].pc = "billCommit"]
            ELSE IF BorrowerId(DB, Head(txn[s].names)) = 0
            THEN [txn EXCEPT ![s].names = Tail(@)]
            ELSE [txn EXCEPT ![s].found = BorrowerId(DB, Head(txn[s].names)),
                             ![s].pc = "syncSum"]
  /\ UNCHANGED saleSeq
  /\ ConcFrame

\* SELECT COALESCE(SUM(borrow_amount), 0) FROM sales WHERE customer_name = $1,
\* which sees the committed sales and the transaction's own
SyncSum(s) ==
  /\ txn[s].pc = "syncSum"
  /\ txn' = [txn EXCEPT
               ![s].sum = SumBorrow({x \in ViewSales(s) :
                                       x.customer_name = Head(txn[s].names)}),
               ![s].pc = "syncWrite"]
  /\ UNCHANGED saleSeq
  /\ ConcFrame

\* UPDATE borrowers SET outstanding_amount = 0 or the sum WHERE id = $1,
\* which waits for the row lock
SyncWrite(s) ==
  /\ txn[s].pc = "syncWrite"
  /\ ~BorrowerLocked(s, txn[s].found)
  /\ LET amount == IF txn[s].sum <= 0 THEN 0 ELSE txn[s].sum
     IN txn' = IF ~BorrowerRowCheck([outstanding_amount |-> amount])
               THEN Throw(s, "borrowers_outstanding_amount_check")
               ELSE [txn EXCEPT
                       ![s].borrowers =
                         [id \in DOMAIN txn[s].borrowers \cup {txn[s].found} |->
                            IF id = txn[s].found THEN amount
                            ELSE txn[s].borrowers[id]],
                       ![s].names = Tail(@),
                       ![s].pc = "sync"]
  /\ UNCHANGED saleSeq
  /\ ConcFrame

\* COMMIT of edit-bill and delete-bill
BillCommit(s) ==
  /\ txn[s].pc = "billCommit"
  /\ stock' = {[r EXCEPT !.quantity = ViewQuantity(s, r)] : r \in stock}
  /\ sales' = ViewSales(s)
  /\ sale_items' = ViewItems(s)
  /\ borrowers' = [i \in 1..Len(borrowers) |->
                     IF i \in DOMAIN txn[s].borrowers
                     THEN [borrowers[i] EXCEPT
                             !.outstanding_amount = txn[s].borrowers[i]]
                     ELSE borrowers[i]]
  /\ txn' = Answered(s, TRUE)
  /\ last' = [op |-> txn[s].op, swept |-> FALSE, ok |-> TRUE, err |-> ""]
  /\ UNCHANGED <<products, stockSeq, expired_stock, saleSeq,
                 borrower_payments, today, lastExpiredCheck, shelf>>

\* the shop of the desk scenario: the sweep of the day has run, one piece of
\* an article that does not expire was sold for cash from a shelf that held
\* shelf pieces
DeskShop(q) ==
  [products |-> <<[name |-> "Widget", price |-> 2, expiry_date |-> MaxDay]>>,
   stock |-> {[id |-> 1, product_id |-> 1, quantity |-> q - 1]},
   stockSeq |-> 1, expired_stock |-> <<>>,
   sales |-> {[id |-> 1, sale_date |-> 1, customer_name |-> NULL,
               payment_type |-> "CASH", total_amount |-> 2,
               discount_amount |-> 0, paid_amount |-> 2, borrow_amount |-> 0]},
   saleSeq |-> 1,
   sale_items |-> <<[sale_id |-> 1, product_id |-> 1, price |-> 2,
                     quantity |-> 1, line_total |-> 2]>>,
   borrowers |-> <<>>, borrower_payments |-> <<>>]

InitDesk ==
  /\ shelf \in 1..MaxShelf
  /\ products = DeskShop(shelf).products
  /\ stock = DeskShop(shelf).stock
  /\ stockSeq = DeskShop(shelf).stockSeq
  /\ expired_stock = <<>>
  /\ sales = DeskShop(shelf).sales
  /\ saleSeq = DeskShop(shelf).saleSeq
  /\ sale_items = DeskShop(shelf).sale_items
  /\ borrowers = <<>>
  /\ borrower_payments = <<>>
  /\ today = 1
  /\ lastExpiredCheck = 1
  /\ last = Idle
  /\ txn = [s \in Sessions |-> IdleTxn]

NextDesk ==
  \/ \E s \in Sessions : BeginEdit(DeskEditReqs, s)
  \/ \E s \in Sessions : BeginDelete(DeskDeleteReqs, s)
  \/ \E s \in Sessions : SaleSelect(s)
  \/ \E s \in Sessions : ItemsSelect(s)
  \/ \E s \in Sessions : RestoreStmt(s)
  \/ \E s \in Sessions : DeleteItemsStmt(s)
  \/ \E s \in Sessions : NewItemDebit(s)
  \/ \E s \in Sessions : NewItemInsert(s)
  \/ \E s \in Sessions : HeaderStmt(s)
  \/ \E s \in Sessions : RecomputeStmt(s)
  \/ \E s \in Sessions : DeleteSaleStmt(s)
  \/ \E s \in Sessions : SyncSelect(s)
  \/ \E s \in Sessions : BillCommit(s)
  \/ \E s \in Sessions : RollbackStmt(s)

\* the desk scenario: two clients edit or delete the same bill at the same
\* time
SpecDesk == InitDesk /\ [][NextDesk]_vars

\* the shop of the account scenario: the sweep of the day has run, Amit owes
\* for one Gadget bought on credit, q Widgets are on the shelf
AccountShop(q) ==
  [products |-> <<[name |-> "Widget", price |-> 2, expiry_date |-> MaxDay],
                  [name |-> "Gadget", price |-> 2, expiry_date |-> MaxDay]>>,
   stock |-> {[id |-> 1, product_id |-> 1, quantity |-> q],
              [id |-> 2, product_id |-> 2, quantity |-> 0]},
   stockSeq |-> 2, expired_stock |-> <<>>,
   sales |-> {[id |-> 1, sale_date |-> 1, customer_name |-> "Amit",
               payment_type |-> "BORROW", total_amount |-> 2,
               discount_amount |-> 0, paid_amount |-> 0, borrow_amount |-> 2]},
   saleSeq |-> 1,
   sale_items |-> <<[sale_id |-> 1, product_id |-> 2, price |-> 2,
                     quantity |-> 1, line_total |-> 2]>>,
   borrowers |-> <<[name |-> "Amit", outstanding_amount |-> 2]>>,
   borrower_payments |-> <<>>]

InitAccount ==
  /\ shelf \in 1..MaxShelf
  /\ products = AccountShop(shelf).products
  /\ stock = AccountShop(shelf).stock
  /\ stockSeq = AccountShop(shelf).stockSeq
  /\ expired_stock = <<>>
  /\ sales = AccountShop(shelf).sales
  /\ saleSeq = AccountShop(shelf).saleSeq
  /\ sale_items = AccountShop(shelf).sale_items
  /\ borrowers = AccountShop(shelf).borrowers
  /\ borrower_payments = <<>>
  /\ today = 1
  /\ lastExpiredCheck = 1
  /\ last = Idle
  /\ txn = [s \in Sessions |-> IdleTxn]

NextAccount ==
  \/ \E s \in Sessions : BeginSale(s)
  \/ \E s \in Sessions : InsertSaleStmt(s)
  \/ \E s \in Sessions : DebitStart(s)
  \/ \E s \in Sessions : DebitApply(s)
  \/ \E s \in Sessions : InsertItemStmt(s)
  \/ \E s \in Sessions : BorrowerSelect(s)
  \/ \E s \in Sessions : BorrowerWrite(s)
  \/ \E s \in Sessions : CommitStmt(s)
  \/ \E s \in Sessions : BeginDelete(DeskDeleteReqs, s)
  \/ \E s \in Sessions : SaleSelect(s)
  \/ \E s \in Sessions : ItemsSelect(s)
  \/ \E s \in Sessions : RestoreStmt(s)
  \/ \E s \in Sessions : DeleteItemsStmt(s)
  \/ \E s \in Sessions : DeleteSaleStmt(s)
  \/ \E s \in Sessions : SyncSelect(s)
  \/ \E s \in Sessions : SyncSum(s)
  \/ \E s \in Sessions : SyncWrite(s)
  \/ \E s \in Sessions : BillCommit(s)
  \/ \E s \in Sessions : RollbackStmt(s)

\* the account scenario: a sale on credit while another bill of the customer
\* is deleted
SpecAccount == InitAccount /\ [][NextAccount]_vars

\* ----------------------- two sales of the same two articles, in either order
\* requests of the basket scenario: one piece each of two articles, in either
\* order
BasketSaleReqs ==
  {[customer_name |-> NULL, payment_type |-> "CASH",
    items |-> <<[product_id |-> a, price |-> 2, quantity |-> 1],
                [product_id |-> 3 - a, price |-> 2, quantity |-> 1]>>,
    total_amount |-> 4, discount_amount |-> 0, paid_amount |-> 4]
   : a \in {1, 2}}

\* edits of bill 1 or 2 to one piece each of the two articles, in either
\* order
BasketEditReqs ==
  [sale_id : {1, 2}, customer_name : {NULL}, payment_type : {"CASH"},
   discount_amount : {0}, paid_amount : {4},
   items : {<<[product_id |-> a, quantity |-> 1],
              [product_id |-> 3 - a, quantity |-> 1]>> : a \in {1, 2}}]

\* the stock rows the UPDATE stock that client s is executing has to lock
StockWanted(s) ==
  LET of(pid) == {r.id : r \in {x \in stock : x.product_id = pid}}
  IN CASE txn[s].pc = "lock" -> DOMAIN txn[s].seen
       [] txn[s].pc = "restore" -> of(Head(txn[s].rows).product_id)
       [] txn[s].pc = "newItem" ->
            IF txn[s].items[txn[s].i].quantity > 0
            THEN of(txn[s].items[txn[s].i].product_id) ELSE {}
       [] OTHER -> {}

\* the UPDATE of client s waits for a row that the open transaction of
\* client o holds locked
WaitsFor(s, o) ==
  /\ Active(o)
  /\ \E id \in StockWanted(s) : id \in DOMAIN txn[o].stock

\* the database finds that the waiting UPDATE of client s closes a cycle of
\* waits: the statement throws "deadlock detected"
DeadlockAbort(s) ==
  /\ \E o \in Sessions \ {s} : WaitsFor(s, o) /\ WaitsFor(o, s)
  /\ txn' = Throw(s, "deadlock detected")
  /\ UNCHANGED saleSeq
  /\ ConcFrame

\* the shop of the basket scenario: the sweep of the day has run, the shelf
\* holds the same number of pieces of two articles, and one piece of each
\* has been sold on a bill of its own
InitBasket ==
  /\ shelf \in 1..MaxShelf
  /\ products = <<[name |-> "Widget", price |-> 2, expiry_date |-> MaxDay],
                  [name |-> "Gadget", price |-> 2, expiry_date |-> MaxDay]>>
  /\ stock = {[id |-> 1, product_id |-> 1, quantity |-> shelf],
              [id |-> 2, product_id |-> 2, quantity |-> shelf]}
  /\ stockSeq = 2
  /\ expired_stock = <<>>
  /\ sales = {[id |-> k, sale_date |-> 1, customer_name |-> NULL,
               payment_type |-> "CASH", total_amount |-> 2,
               discount_amount |-> 0, paid_amount |-> 2, borrow_amount |-> 0]
              : k \in {1, 2}}
  /\ saleSeq = 2
  /\ sale_items = <<[sale_id |-> 1, product_id |-> 1, price |-> 2,
                     quantity |-> 1, line_total |-> 2],
                    [sale_id |-> 2, product_id |-> 2, price |-> 2,
                     quantity |-> 1, line_total |-> 2]>>
  /\ borrowers = <<>>
  /\ borrower_payments = <<>>
  /\ today = 1
  /\ lastExpiredCheck = 1
  /\ last = Idle
  /\ txn = [s \in Sessions |-> IdleTxn]

NextBasket ==
  \/ \E s \in Sessions : BeginSaleOf(BasketSaleReqs, s)
  \/ \E s \in Sessions : InsertSaleStmt(s)
  \/ \E s \in Sessions : DebitStart(s)
  \/ \E s \in Sessions : DebitApply(s)
  \/ \E s \in Sessions : DeadlockAbort(s)
  \/ \E s \in Sessions : InsertItemStmt(s)
  \/ \E s \in Sessions : BorrowerSelect(s)
  \/ \E s \in Sessions : CommitStmt(s)
  \/ \E s \in Sessions : RollbackStmt(s)
  \/ \E s \in Sessions : BeginEdit(BasketEditReqs, s)
  \/ \E s \in Sessions : SaleSelect(s)
  \/ \E s \in Sessions : ItemsSelect(s)
  \/ \E s \in Sessions : RestoreStmt(s)
  \/ \E s \in Sessions : DeleteItemsStmt(s)
  \/ \E s \in Sessions : NewItemDebit(s)
  \/ \E s \in Sessions : NewItemInsert(s)
  \/ \E s \in Sessions : HeaderStmt(s)
  \/ \E s \in Sessions : RecomputeStmt(s)
  \/ \E s \in Sessions : SyncSelect(s)
  \/ \E s \in Sessions : BillCommit(s)

\* every statement a client awaits is executed once it can run, and a cycle
\* of waits is found
FairBasket ==
  \A s \in Sessions :
    /\ WF_vars(InsertSaleStmt(s))
    /\ WF_vars(DebitStart(s))
    /\ WF_vars(DebitApply(s))
    /\ WF_vars(DeadlockAbort(s))
    /\ WF_vars(InsertItemStmt(s))
    /\ WF_vars(BorrowerSelect(s))
    /\ WF_vars(CommitStmt(s))
    /\ WF_vars(RollbackStmt(s))
    /\ WF_vars(SaleSelect(s))
    /\ WF_vars(ItemsSelect(s))
    /\ WF_vars(RestoreStmt(s))
    /\ WF_vars(DeleteItemsStmt(s))
    /\ WF_vars(NewItemDebit(s))
    /\ WF_vars(NewItemInsert(s))
    /\ WF_vars(HeaderStmt(s))
    /\ WF_vars(RecomputeStmt(s))
    /\ WF_vars(SyncSelect(s))
    /\ WF_vars(BillCommit(s))

\* the basket scenario: two sales or edits of the same two articles at the
\* same time
SpecBasket == InitBasket /\ [][NextBasket]_vars /\ FairBasket

\* ================================================================ claims
\* the rows of the ledger tables of a database
Tables(d) == [stock |-> d.stock, sales |-> d.sales,
              sale_items |-> d.sale_items, borrowers |-> d.borrowers,
              borrower_payments |-> d.borrower_payments]

\* C1: every borrower's outstanding_amount equals the sum of borrow_amount
\* over the sales whose customer_name is the borrower's name.
C1_OutstandingIsBorrowSum ==
  \A i \in 1..Len(borrowers) :
    borrowers[i].outstanding_amount = SumBorrow(SalesOf(DB, borrowers[i].name))

\* C2: every stored sale's total_amount equals the sum of line_total over
\* its sale_items.
C2_TotalIsSumOfLineTotals ==
  \A s \in sales : s.total_amount = SumLineTotal(ItemsOf(DB, s.id))

\* C3: a BORROW sale has borrow_amount = max(0, total_amount - paid_amount),
\* a CASH or ONLINE sale has borrow_amount = 0.
C3_BorrowAmountRule ==
  \A s \in sales :
    IF s.payment_type = "BORROW"
    THEN s.borrow_amount = Max(0, s.total_amount - s.paid_amount)
    ELSE s.borrow_amount = 0

\* C4: every stock row's quantity is >= 0 in every reachable state.
C4_StockNeverNegative == \A r \in stock : r.quantity >= 0

\* a sale that asked for more than the stock holds has just been refused
C4_Witness ==
  /\ last.op = "createSale"
  /\ last.err = "stock_quantity_check"
  /\ \E r \in stock : r.quantity > 0

\* C5: a createSale with an item that asks for more than the product's stock
\* quantity, or whose product has no stock row, fails and leaves the tables
\* as they were: a createSale that succeeds found, for each item of the new
\* sale, a stock row holding at least the item's quantity, and one that fails
\* changes nothing.
C5_ShortSaleFails ==
  [][last'.op = "createSale" =>
       IF last'.ok
       THEN \A i \in 1..Len(sale_items') :
              sale_items'[i].sale_id = saleSeq' =>
                \E r \in Swept.db.stock :
                  /\ r.product_id = sale_items'[i].product_id
                  /\ r.quantity >= sale_items'[i].quantity
       ELSE Tables(DB)' = Tables(Swept.db)]_vars

\* the quantity the request of a client asks for
RECURSIVE Requested(_)
Requested(items) ==
  IF items = <<>> THEN 0 ELSE Head(items).quantity + Requested(Tail(items))

\* the quantity the requests of a set of clients ask for
RECURSIVE Sold(_)
Sold(S) ==
  IF S = {} THEN 0
  ELSE LET s == CHOOSE x \in S : TRUE
       IN Requested(txn[s].items) + Sold(S \ {s})

\* C6: of two createSale operations that run at the same time on one product
\* and ask together for more than the shelf held, at most one commits, and
\* the committed stock quantity is never below zero and never above the
\* quantity the shelf held minus what the committed sales took.
C6_ConcurrentSalesConserveStock ==
  LET committed == {s \in Sessions : txn[s].pc = "done" /\ txn[s].ok}
  IN /\ \A a, b \in committed :
          a # b => Sold({a, b}) <= shelf
     /\ \A r \in stock :
          /\ r.quantity >= 0
          /\ r.quantity <= shelf - Sold(committed)

\* two sales that asked together for more than the shelf held have run at
\* the same time: one has committed, the other found the shelf sufficient
\* when its UPDATE started, waited for the row and was refused
C6_Witness ==
  \E a, b \in Sessions :
    /\ a # b
    /\ txn[a].pc = "done" /\ txn[a].ok
    /\ txn[b].pc = "done" /\ ~txn[b].ok
    /\ txn[b].err = "stock_quantity_check"
    /\ Sold({a, b}) > shelf
    /\ \A id \in DOMAIN txn[b].seen : txn[b].seen[id] >= Requested(txn[b].items)

\* C7: a createSale that fails after the sale header was inserted leaves no
\* sale, sale_item, stock or borrower change behind.
C7_CreateSaleAllOrNothing ==
  [][last'.op = "createSale" /\ ~last'.ok => Tables(DB)' = Tables(Swept.db)]_vars

\* a createSale has just failed at the sale_item insert or at the stock debit
C7_Witness ==
  /\ last.op = "createSale"
  /\ last.err \in {"stock_quantity_check", "sale_items_product_id_fkey"}

\* C8: an editSale, deleteSale or recordPayment that fails leaves stock,
\* sales, sale_items, borrowers and borrower_payments as they were.
C8_EditDeletePayAllOrNothing ==
  [][last'.op \in {"editSale", "deleteSale", "recordPayment"} /\ ~last'.ok
       => Tables(DB)' = Tables(Swept.db)]_vars

\* an editSale has just failed at a new item, after the old items' stock was
\* given back and the old items were deleted
C8_Witness ==
  /\ last.op = "editSale"
  /\ last.err \in {"Invalid product in edit", "stock_quantity_check"}
  /\ sale_items # <<>>

\* C9: from any state, a second sweep for the same date changes neither
\* expired_stock nor stock.
C9_SweepIdempotent ==
  LET once == sweepRows(DB, expiredRows(DB, today), today)
      twice == sweepRows(once, expiredRows(once, today), today)
  IN /\ twice.expired_stock = once.expired_stock
     /\ twice.stock = once.stock

\* a sweep has just moved stock to expired_stock
C9_Witness ==
  /\ last.op = "get"
  /\ last.swept
  /\ \E i \in 1..Len(expired_stock) : expired_stock[i].expired_date = today

\* C10: a sweep for date D removes every stock row of a product with
\* expiry_date < D, adds a row (product_id, q, D) to expired_stock for each
\* such row with q > 0, and leaves the other stock rows unchanged.
C10_SweepMovesExpired ==
  [][last'.op = "get" /\ last'.swept =>
       \A r \in stock :
         IF products[r.product_id].expiry_date < today
         THEN /\ r \notin stock'
              /\ r.quantity > 0 =>
                   \E i \in (Len(expired_stock) + 1)..Len(expired_stock') :
                     expired_stock'[i] = [product_id |-> r.product_id,
                                          quantity |-> r.quantity,
                                          expired_date |-> today]
         ELSE r \in stock']_vars

\* a sweep has just moved one product's stock and kept another's
C10_Witness ==
  /\ last.op = "get"
  /\ last.swept
  /\ \E i \in 1..Len(expired_stock) : expired_stock[i].expired_date = today
  /\ \E r \in stock : products[r.product_id].expiry_date >= today

\* C11: two sweeps for the same date that run at the same time, in two server
\* processes with a lastExpiredCheck each, leave the expired_stock and stock
\* of a single sweep: the expired quantity is never recorded more often than
\* one sweep records it, and when both are through the tables are those of
\* one sweep.
C11_ConcurrentSweepsAsOne ==
  LET d == SweepShelf(shelf)
      single == sweepRows(d, expiredRows(d, today), today)
  IN /\ Len(expired_stock) <= Len(single.expired_stock)
     /\ (\A s \in Sessions : txn[s].pc = "done") =>
          /\ expired_stock = single.expired_stock
          /\ stock = single.stock

\* C12: in every reachable state there is at most one stock row per
\* product_id, also when two addStock operations for the same product run at
\* the same time and no stock row of the product existed when they began.
C12_OneStockRowPerProduct ==
  \A a, b \in stock : a.product_id = b.product_id => a = b

\* two addStock operations for the same product run at the same time and no
\* stock row of the product exists: one has inserted its row and not yet
\* committed, the other waits at the products upsert
C12_Witness ==
  \E a, b \in Sessions :
    /\ a # b
    /\ stock = {}
    /\ txn[a].pc = "commit" /\ txn[a].newStock # {}
    /\ txn[b].pc = "product"
    /\ txn[b].req.name = txn[a].req.name

\* the stock quantity of a product: 0 when it has no stock row
StockQuantity(d, pid) ==
  LET rows == {r \in d.stock : r.product_id = pid}
  IN IF rows = {} THEN 0 ELSE (CHOOSE r \in rows : TRUE).quantity

\* the products of a list that have the triple of a stock POST
Matching(P, req) ==
  {i \in 1..Len(P) : /\ P[i].name = req.name
                     /\ P[i].price = req.price
                     /\ P[i].expiry_date = req.expiry_date}

\* C13: a successful addStock(name, price, expiry_date, q) leaves the stock
\* quantity of the product with that triple equal to its previous quantity (0
\* when it had no stock row) plus q, creates the product only when no product
\* with that triple exists, and leaves every other product's stock unchanged.
C13_AddStockAdds ==
  \A req \in StockReqs :
    LET d == Swept.db
        r == stockPOST(d, req)
    IN r.ok =>
         /\ r.db.products =
              IF Matching(d.products, req) # {} THEN d.products
              ELSE Append(d.products, [name |-> req.name, price |-> req.price,
                                       expiry_date |-> req.expiry_date])
         /\ \E pid \in Matching(r.db.products, req) :
              /\ Matching(r.db.products, req) = {pid}
              /\ StockQuantity(r.db, pid) = StockQuantity(d, pid) + req.quantity
              /\ \A o \in 1..Len(r.db.products) :
                   o # pid => {x \in r.db.stock : x.product_id = o}
                                = {x \in d.stock : x.product_id = o}

\* an addStock has just added its quantity, -1, to the stock row of a product
\* that held 1, next to the stock row of another product
C13_Witness ==
  /\ last.op = "addStock"
  /\ last.ok
  /\ Len(products) = 2
  /\ stockSeq = 2
  /\ Cardinality(stock) = 2
  /\ \A r \in stock : r.quantity = 0

\* the step is the handler's answer to the stock POST with body req
StockPosted(req) ==
  /\ last'.op = "addStock"
  /\ last'.ok = stockPOST(Swept.db, req).ok
  /\ last'.err = stockPOST(Swept.db, req).err
  /\ DB' = stockPOST(Swept.db, req).db

\* C14: addStock with quantity <= 0 fails with InvalidInput and changes
\* neither products nor stock.
C14_NonPositiveQuantityRejected ==
  [][\A req \in StockReqs :
       req.quantity <= 0 /\ StockPosted(req) =>
         /\ ~last'.ok
         /\ products' = Swept.db.products
         /\ stock' = Swept.db.stock]_vars

\* C15: addStock with an expiry_date earlier than the current date fails with
\* InvalidInput and changes neither products nor stock.
C15_PastExpiryRejected ==
  [][\A req \in StockReqs :
       req.expiry_date < today /\ StockPosted(req) =>
         /\ ~last'.ok
         /\ products' = Swept.db.products
         /\ stock' = Swept.db.stock]_vars

\* the step is the handler's answer to the sales POST with body req
SalePosted(req) ==
  /\ last'.op = "createSale"
  /\ last'.ok = salesPOST(Swept.db, req).ok
  /\ last'.err = salesPOST(Swept.db, req).err
  /\ DB' = salesPOST(Swept.db, req).db

\* C16: a createSale with an empty item list, or with an item whose quantity
\* is <= 0, is rejected and changes no state, and no createSale increases a
\* stock quantity.
C16_BadItemsRejected ==
  [][\A req \in TillSaleReqs :
       SalePosted(req) =>
         /\ (\/ req.items = <<>>
             \/ \E i \in 1..Len(req.items) : req.items[i].quantity <= 0) =>
               /\ ~last'.ok
               /\ Tables(DB)' = Tables(Swept.db)
               /\ products' = Swept.db.products
         /\ \A r \in Swept.db.stock :
              \A n \in stock' : n.id = r.id => n.quantity <= r.quantity
         /\ \A n \in stock' : \E r \in Swept.db.stock : n.id = r.id]_vars

\* a createSale with an item of quantity -1 or 0 has just been refused at the
\* sale_items insert, after its UPDATE of the stock row
C16_Witness ==
  /\ last.op = "createSale"
  /\ last.err = "sale_items_check"
  /\ \E r \in stock : r.quantity > 0

\* C17: a successful createSale with borrow_amount b > 0 for customer c
\* creates a borrowers row for c with outstanding_amount b when none exists
\* and otherwise increases c's outstanding_amount by exactly b; a createSale
\* with borrow_amount = 0 changes no borrowers row.
C17_CreateSaleUpsertsBorrower ==
  [][last'.op = "createSale" /\ last'.ok =>
       LET sale == CHOOSE x \in sales' : x.id = saleSeq'
           b == sale.borrow_amount
           c == sale.customer_name
           before == Swept.db.borrowers
           id == BorrowerId(Swept.db, c)
       IN /\ b > 0 /\ c # NULL =>
               borrowers' =
                 IF id = 0
                 THEN Append(before, [name |-> c, outstanding_amount |-> b])
                 ELSE [before EXCEPT ![id].outstanding_amount = @ + b]
          /\ b = 0 => borrowers' = before]_vars

\* a second sale on credit to the same customer has just added its
\* borrow_amount to the customer's outstanding_amount
C17_Witness ==
  /\ last.op = "createSale"
  /\ last.ok
  /\ saleSeq = 2
  /\ \E i \in 1..Len(borrowers) :
       /\ borrowers[i].outstanding_amount = 4
       /\ \A x \in sales : x.customer_name = borrowers[i].name
                             /\ x.borrow_amount = 2

\* the outstanding amount of a customer: 0 when there is no borrowers row
Outstanding(d, name) ==
  IF BorrowerId(d, name) = 0 THEN 0
  ELSE d.borrowers[BorrowerId(d, name)].outstanding_amount

\* C18: a createSale followed by the deleteSale of that sale restores every
\* product's stock quantity and every borrower's outstanding_amount to the
\* values before the createSale; stated for the deleteSale that follows the
\* createSale at once, from every reachable state.
C18_CreateThenDeleteRestores ==
  \A req \in LedgerSaleReqs :
    LET d == Swept.db
        created == salesPOST(d, req)
        deleted == deleteBillPOST(created.db, [sale_id |-> created.db.saleSeq])
    IN created.ok =>
         /\ deleted.ok
         /\ \A pid \in 1..Len(d.products) :
              StockQuantity(deleted.db, pid) = StockQuantity(d, pid)
         /\ \A name \in {"Amit"} \cup {d.borrowers[i].name
                                         : i \in 1..Len(d.borrowers)} :
              Outstanding(deleted.db, name) = Outstanding(d, name)

\* C20: every sale with borrow_amount > 0 has a customer_name for which a
\* borrowers row exists, also after an editSale that turns a sale into BORROW
\* or moves it to a customer without a borrowers row.
C20_CreditSaleHasBorrower ==
  \A x \in sales :
    x.borrow_amount > 0 =>
      /\ x.customer_name # NULL
      /\ BorrowerId(DB, x.customer_name) # 0

\* the quantity a list of items holds of a product
RECURSIVE QuantityOf(_, _)
QuantityOf(items, pid) ==
  IF items = <<>> THEN 0
  ELSE (IF Head(items).product_id = pid THEN Head(items).quantity ELSE 0)
         + QuantityOf(Tail(items), pid)

\* C19: after a successful editSale each product's stock quantity equals its
\* quantity before the edit plus the quantity the sale's old items held of it
\* minus the quantity the new items hold of it, and the sale's items are
\* exactly the new item set.
C19_EditSaleMovesStock ==
  \A req \in EditReqs :
    LET d == Swept.db
        r == editBillPOST(d, req)
        old == ItemsOf(d, req.sale_id)
        new == ItemsOf(r.db, req.sale_id)
    IN r.ok =>
         /\ \A pid \in 1..Len(d.products) :
              StockQuantity(r.db, pid) =
                StockQuantity(d, pid) + QuantityOf(old, pid)
                  - QuantityOf(req.items, pid)
         /\ [i \in 1..Len(new) |-> [product_id |-> new[i].product_id,
                                     quantity |-> new[i].quantity]]
              = req.items

\* the step is the handler's answer to the borrower-payments POST with body
\* req
PaymentPosted(req) ==
  /\ last'.op = "recordPayment"
  /\ last'.ok = borrowerPaymentsPOST(Swept.db, req).ok
  /\ last'.err = borrowerPaymentsPOST(Swept.db, req).err
  /\ DB' = borrowerPaymentsPOST(Swept.db, req).db

\* the step leaves payments, sales and borrowers as they were
LedgerUntouched ==
  /\ borrower_payments' = Swept.db.borrower_payments
  /\ sales' = Swept.db.sales
  /\ borrowers' = Swept.db.borrowers

C22_UnknownBorrowerRejected ==
  [][\A req \in PayReqs :
       /\ req.borrower_id # 0
       /\ req.amount # 0
       /\ req.borrower_id \notin 1..Len(Swept.db.borrowers)
       /\ PaymentPosted(req)
       => /\ ~last'.ok
          /\ last'.err = "Borrower not found"
          /\ LedgerUntouched]_vars

\* a payment for an unknown borrower has just been refused while another
\* borrower owes
C22_Witness ==
  /\ last.op = "recordPayment"
  /\ last.err = "Borrower not found"
  /\ \E i \in 1..Len(borrowers) : borrowers[i].outstanding_amount > 0

C24_PaymentOldestFirst ==
  [][last'.op = "recordPayment" /\ last'.ok =>
       \A x \in Swept.db.sales :
         \A n \in sales' :
           n.id = x.id /\ n.borrow_amount < x.borrow_amount =>
             /\ n.borrow_amount >= 0
             /\ \A y \in sales' :
                  /\ y.customer_name = n.customer_name
                  /\ y.sale_date < n.sale_date
                  => y.borrow_amount = 0]_vars

\* the sum of a column over a set of sales
RECURSIVE SumCol(_, _)
SumCol(S, c) ==
  IF S = {} THEN 0
  ELSE LET x == CHOOSE y \in S : TRUE IN x[c] + SumCol(S \ {x}, c)

\* C25: a successful recordPayment of amount a for a borrower whose sales
\* have total borrow_amount S lowers the sum of those sales' borrow_amount by
\* exactly min(a, S), raises the sum of their paid_amount by the same value,
\* leaves each sale's total_amount unchanged and sets the borrower's
\* outstanding_amount to S - min(a, S).
C25_PaymentLowersBorrow ==
  [][\A req \in PayReqs :
       PaymentPosted(req) /\ last'.ok =>
         LET d == Swept.db
             name == d.borrowers[req.borrower_id].name
             before == SalesOf(d, name)
             after == {x \in sales' : x.customer_name = name}
             S == SumCol(before, "borrow_amount")
             m == Min(req.amount, S)
         IN /\ SumCol(after, "borrow_amount") = S - m
            /\ SumCol(after, "paid_amount")
                 = SumCol(before, "paid_amount") + m
            /\ \A x \in before : \E n \in after :
                 n.id = x.id /\ n.total_amount = x.total_amount
            /\ borrowers'[req.borrower_id].outstanding_amount = S - m]_vars

\* C26: every borrowers row has outstanding_amount >= 0 in every reachable
\* state, also after a payment larger than the outstanding amount and after
\* a BORROW sale whose paid_amount exceeds its total_amount.
C26_OutstandingNeverNegative ==
  \A i \in 1..Len(borrowers) : borrowers[i].outstanding_amount >= 0

\* a payment larger than the outstanding amount has just been refused for a
\* borrower who also has a BORROW sale paid beyond its total
C26_Witness ==
  /\ last.op = "recordPayment"
  /\ last.err = "borrowers_outstanding_amount_check"
  /\ \E i \in 1..Len(borrowers) :
       \E x \in sales : /\ x.customer_name = borrowers[i].name
                        /\ x.payment_type = "BORROW"
                        /\ x.paid_amount > x.total_amount

\* C27: every stored sale with payment_type CASH or ONLINE has
\* discount_amount = total_amount - paid_amount and borrow_amount = 0, after
\* createSale and after editSale.
C27_CashGapIsDiscount ==
  \A x \in sales :
    x.payment_type \in {"CASH", "ONLINE"} =>
      /\ x.discount_amount = x.total_amount - x.paid_amount
      /\ x.borrow_amount = 0

\* the step is the handler's answer to the edit-bill POST with body req
EditPosted(req) ==
  /\ last'.op = "editSale"
  /\ last'.ok = editBillPOST(Swept.db, req).ok
  /\ last'.err = editBillPOST(Swept.db, req).err
  /\ DB' = editBillPOST(Swept.db, req).db

\* the step is the handler's answer to the delete-bill POST with body req
DeletePosted(req) ==
  /\ last'.op = "deleteSale"
  /\ last'.ok = deleteBillPOST(Swept.db, req).ok
  /\ last'.err = deleteBillPOST(Swept.db, req).err
  /\ DB' = deleteBillPOST(Swept.db, req).db

\* the sale ids that were given out and whose sale has been deleted
DeletedSales == {id \in 1..saleSeq : \A x \in sales : x.id # id}

\* C28: once the deleteSale of a sale has committed, the sale stays deleted
\* and every later editSale or deleteSale with that sale_id fails with
\* NotFound and changes no stock, sale, sale_item or borrower.
C28_DeletedSaleStaysDeleted ==
  [][/\ DeletedSales \subseteq DeletedSales'
     /\ \A req \in LedgerEditReqs :
          req.sale_id \in DeletedSales /\ EditPosted(req) =>
            /\ ~last'.ok
            /\ last'.err = "Sale not found"
            /\ Tables(DB)' = Tables(Swept.db)
     /\ \A req \in DeleteReqs(MaxSales) :
          req.sale_id \in DeletedSales /\ DeletePosted(req) =>
            /\ ~last'.ok
            /\ last'.err = "Sale not found"
            /\ Tables(DB)' = Tables(Swept.db)]_vars

\* an editSale or deleteSale of a sale that was deleted before has just been
\* refused
C28_Witness ==
  /\ last.op \in {"editSale", "deleteSale"}
  /\ last.err = "Sale not found"
  /\ DeletedSales # {}

\* C29: in every reachable state expired_stock holds at most one row per
\* (product_id, expired_date), also when stock of an already swept product
\* is added again and swept on the same date.
C29_OneExpiredRowPerProductAndDate ==
  \A i, j \in 1..Len(expired_stock) :
    /\ expired_stock[i].product_id = expired_stock[j].product_id
    /\ expired_stock[i].expired_date = expired_stock[j].expired_date
    => i = j

\* table `new` holds the rows of table `old` unchanged, in their places
Extends(new, old) ==
  /\ Len(new) >= Len(old)
  /\ \A i \in 1..Len(old) : new[i] = old[i]

\* C30: expired_stock and borrower_payments are append-only: no step of
\* addStock, createSale, editSale, deleteSale, recordPayment or the sweep
\* changes or removes a row that either table already holds.
C30_AppendOnlyTables ==
  [][/\ Extends(expired_stock', expired_stock)
     /\ Extends(borrower_payments', borrower_payments)]_vars

\* both tables hold a row and the sale has just been deleted after them
C30_Witness ==
  /\ Len(expired_stock) > 0
  /\ Len(borrower_payments) > 0
  /\ last.op = "deleteSale"
  /\ last.ok

\* the pieces of a product the tables account for: on the shelf, on the
\* items of the sales, and expired
Held(d, pid) ==
  StockQuantity(d, pid) + QuantityOf(d.sale_items, pid)
    + QuantityOf(d.expired_stock, pid)

\* the quantities a successful addStock of the step has added to a product
Added(pid) ==
  {req.quantity : req \in {r \in ShopStockReqs :
                             /\ StockPosted(r)
                             /\ last'.ok
                             /\ pid \in Matching(products', r)}}

\* C31: stock is conserved: for every product the quantity added by
\* successful addStock calls equals the stock quantity plus the quantity on
\* the sale_items of the sales plus the quantity on its expired_stock rows;
\* step by step, the sum of the three grows by what a successful addStock
\* adds and is left unchanged by every other step, also by an editSale or
\* deleteSale of a sale whose product's stock row a sweep has removed.
C31_StockConserved ==
  [][\A pid \in 1..Len(products') :
       IF Added(pid) = {}
       THEN Held(DB', pid) = Held(DB, pid)
       ELSE \E q \in Added(pid) : Held(DB', pid) = Held(DB, pid) + q]_vars

\* the database after the request client s has served, run alone on d
BillServed(d, s) ==
  IF txn[s].op = "editSale" THEN editBillPOST(d, txn[s].bill).db
  ELSE deleteBillPOST(d, [sale_id |-> txn[s].bill.sale_id]).db

\* C32: when two editSale operations, or an editSale and a deleteSale, run
\* at the same time on the same sale, the old items are credited back to
\* stock once: when both are answered, the committed stock and sale_items
\* are those of one of the two serial orders of the two operations.
C32_ConcurrentEditsSerializable ==
  (/\ \A s \in Sessions : txn[s].pc = "done"
   /\ \E s \in Sessions : txn[s].op = "editSale") =>
    \E a, b \in Sessions :
      /\ a # b
      /\ stock = BillServed(BillServed(DeskShop(shelf), a), b).stock
      /\ sale_items = BillServed(BillServed(DeskShop(shelf), a), b).sale_items

\* the stock row of a product holds pieces that its expired_stock rows have
\* recorded already
HalfMoved(pid) ==
  /\ QuantityOf(expired_stock, pid) > 0
  /\ \E r \in stock : r.product_id = pid /\ r.quantity > 0

\* C33: the sweep moves a product's stock as one atomic step: when a sale
\* interleaves with a running sweep, the quantity written to expired_stock
\* is the stock quantity at the moment the stock row is removed, and no
\* other operation is at a statement that reads the tables while a product's
\* expired_stock row exists and its stock row still holds the quantity.
C33_SweepMovesAtomically ==
  [][/\ \A r \in stock :
          (\A x \in stock' : x.id # r.id) =>
            QuantityOf(expired_stock', r.product_id) = r.quantity
     /\ \A s \in Sessions :
          txn[s].pc = "debit" /\ txn'[s].pc = "lock" =>
            \A pid \in 1..Len(products) : ~HalfMoved(pid)]_vars

\* a stock row of a product that expired before today still holds pieces
ExpiredLeft ==
  \E r \in stock : /\ products[r.product_id].expiry_date < today
                   /\ r.quantity > 0

\* C34: if a sweep attempt on date D fails partway, after lastExpiredCheck
\* was set to D, a later request on the same date in the same process still
\* moves every remaining stock row with expiry_date < D and quantity > 0 to
\* expired_stock: eventually no such stock row remains.
C34_FailedSweepIsRetried == ExpiredLeft ~> ~ExpiredLeft

\* C35: no createSale or editSale reserves stock of a product whose
\* expiry_date is earlier than the current date: a stock row that such a
\* request debits belongs to a product with expiry_date >= today, because
\* after the sweep that precedes the route no stock row with
\* expiry_date < today and quantity > 0 exists.
C35_NoSaleOfExpiredStock ==
  [][last'.op \in {"createSale", "editSale"} /\ last'.ok =>
       \A r \in Swept.db.stock :
         \/ products[r.product_id].expiry_date >= today
         \/ /\ r.quantity <= 0
            /\ \A x \in stock' : x.id = r.id => x.quantity >= r.quantity]_vars

\* C36: when a createSale on credit for a customer runs at the same time as
\* a deleteSale for the same customer, which overwrites outstanding_amount
\* with a recomputed sum, then once both are answered the committed
\* outstanding_amount of the customer equals the sum of borrow_amount over
\* the customer's committed sales.
C36_ConcurrentOutstandingIsSum ==
  (\A s \in Sessions : txn[s].pc = "done") =>
    \A i \in 1..Len(borrowers) :
      borrowers[i].outstanding_amount
        = SumBorrow(SalesOf(DB, borrowers[i].name))

\* the body of an edit-bill POST repeats what sale x of database d holds
Repeats(d, req, x) ==
  /\ x.id = req.sale_id
  /\ x.customer_name = req.customer_name
  /\ x.payment_type = req.payment_type
  /\ x.paid_amount = req.paid_amount
  /\ x.discount_amount = req.discount_amount
  /\ [k \in 1..Len(ItemsOf(d, x.id)) |->
        [product_id |-> ItemsOf(d, x.id)[k].product_id,
         quantity |-> ItemsOf(d, x.id)[k].quantity]] = req.items

\* C37: editSale called with the sale's current customer_name, payment_type,
\* paid_amount, discount_amount and items changes nothing: the stock
\* quantities, the sale's item prices and line totals, its total_amount and
\* borrow_amount and every borrower's outstanding_amount are as before the
\* call, also when the sale's item prices differ from the products' prices.
C37_EditWithSameValuesIsNoOp ==
  [][\A req \in PriceEditReqs :
       \A x \in Swept.db.sales :
         EditPosted(req) /\ Repeats(Swept.db, req, x) =>
           /\ stock' = Swept.db.stock
           /\ ItemsOf(DB', x.id) = ItemsOf(Swept.db, x.id)
           /\ sales' = Swept.db.sales
           /\ borrowers' = Swept.db.borrowers]_vars

\* C38: in every reachable state every sale has at least one sale_item,
\* every sale_item belongs to an existing sale, has quantity > 0 and
\* line_total = price * quantity, also after an editSale with an empty item
\* list or with items of quantity <= 0, and after deleteSale.
C38_SalesAndItemsMatch ==
  /\ \A x \in sales : ItemsOf(DB, x.id) # <<>>
  /\ \A k \in 1..Len(sale_items) :
       /\ \E x \in sales : x.id = sale_items[k].sale_id
       /\ sale_items[k].quantity > 0
       /\ sale_items[k].line_total
            = sale_items[k].price * sale_items[k].quantity

\* C39: every request terminates with one success or failure: two sales or
\* edits that run at the same time and take the same two products in
\* opposite item order both reach their answer, neither waits forever for
\* the other's stock row, and a failed one leaves no partial effect: the
\* step that answers a failure leaves every table as it was.
C39_ConcurrentBasketsTerminate ==
  /\ \A s \in Sessions : (txn[s].pc # "idle") ~> (txn[s].pc = "done")
  /\ [][\A s \in Sessions :
          (txn[s].pc # "done" /\ txn'[s].pc = "done" /\ ~txn'[s].ok)
            => DB' = DB]_vars
  /\ []((\A s \in Sessions : txn[s].pc \in {"idle", "done"}) =>
          \A sale \in sales : ItemsOf(DB, sale.id) # <<>>)

\* the two requests have waited for each other's stock row, one was refused
\* with "deadlock detected" and the other has committed
C39_Witness ==
  /\ \A s \in Sessions : txn[s].pc = "done"
  /\ \E s \in Sessions : ~txn[s].ok /\ txn[s].err = "deadlock detected"
  /\ \E s \in Sessions : txn[s].ok /\ txn[s].op = "editSale"

====
